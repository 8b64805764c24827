-------------------------- MODULE PartitionFactors --------------------------
(***************************************************************************)
(* The factors of participation of a community's metering points           *)
(* (base.metering_partition_factor): the share of its energy a metering    *)
(* point takes part with.  After an owner change a metering point has an   *)
(* entry of each member, and each entry a factor of its own: the former    *)
(* one is still billed for its time.  Forms name the member, messages of   *)
(* the grid operator and his lists do not.                                 *)
(*                                                                         *)
(* Left out: older versions of a factor, which nothing reads (the view     *)
(* base.activemeteringpartition takes the newest), and the rejection of a  *)
(* change, which is only noted.                                            *)
(***************************************************************************)
EXTENDS Naturals, FiniteSets

CONSTANTS Meters, Owners,
          Shares,         \* factors that occur
          OperatorOf,     \* the grid operator a message about a metering point goes to
          NoOperator,     \* none is stored, nor does the community have one
          MaxForms,       \* bound: forms being saved at a time
          MaxSent         \* bound: messages sent to grid operators

VARIABLES entry,          \* entry[x][m]: "none", "new", "active", "over" or "former"
          share,          \* share[x][m]: the newest factor of the entry
          saving,         \* forms between their look-up and their INSERT, <<x, m, f>>
          sent            \* changes asked for: [meters -> factors]; answered late, twice or never

factorVars == <<entry, share, saving, sent>>

\* The entry of a metering point that is assigned (flag 1).
Current(x) == {m \in Owners : entry[x][m] \in {"new", "active", "over"}}

FactorsInit == /\ entry = [x \in Meters |-> [m \in Owners |-> "none"]]
               /\ share = [x \in Meters |-> [m \in Owners |-> 0]]
               /\ saving = {} /\ sent = {}

-----------------------------------------------------------------------------
(* The entries.  A factor is inserted with its entry, and goes with it     *)
(* (ON UPDATE and ON DELETE CASCADE).                                      *)
RegisterEntry(x, m) ==
  \E f \in Shares :
     /\ entry[x][m] = "none" /\ \A n \in Current(x) : entry[x][n] = "over"
     /\ entry' = [entry EXCEPT ![x] = [n \in Owners |-> IF n = m THEN "new"
                                         ELSE IF n \in Current(x) THEN "former" ELSE @[n]]]
     /\ share' = [share EXCEPT ![x][m] = f]
     /\ UNCHANGED <<saving, sent>>

\* A list of the grid operator makes the current entries active, and stores
\* its factor over the newest one.
ListUpdates ==
  \E X \in (SUBSET Meters) \ {{}} : \E list \in [X -> Shares] :
     /\ entry' = [x \in Meters |-> [m \in Owners |->
                    IF x \in X /\ m \in Current(x) THEN "active" ELSE entry[x][m]]]
     /\ share' = [x \in Meters |-> [m \in Owners |->
                    IF x \in X /\ m \in Current(x) THEN list[x] ELSE share[x][m]]]
     /\ UNCHANGED <<saving, sent>>

EndEntry(x, m) == /\ entry[x][m] = "active"
                  /\ entry' = [entry EXCEPT ![x][m] = "over"]
                  /\ UNCHANGED <<share, saving, sent>>

ArchiveEntry(x, m) == /\ entry[x][m] # "none"
                      /\ entry' = [entry EXCEPT ![x][m] = "former"]
                      /\ UNCHANGED <<share, saving, sent>>

RemoveEntry(x, m) == /\ entry[x][m] = "new"
                     /\ entry' = [entry EXCEPT ![x][m] = "none"]
                     /\ share' = [share EXCEPT ![x][m] = 0]
                     /\ UNCHANGED <<saving, sent>>

MoveEntry(x, m, n) ==
  /\ entry[x][m] # "none" /\ entry[x][n] = "none"
  /\ entry' = [entry EXCEPT ![x][n] = entry[x][m], ![x][m] = "none"]
  /\ share' = [share EXCEPT ![x][n] = share[x][m], ![x][m] = 0]
  /\ UNCHANGED <<saving, sent>>

-----------------------------------------------------------------------------
(* A factor changes. *)

\* The entries a change is stored for: of the member, or the current ones.
\* (slip: without a member, all)
AddressedAny(x, member) == IF member = {} THEN {m \in Owners : entry[x][m] # "none"} ELSE member
Addressed(x, member) == IF member = {} THEN Current(x) ELSE member

\* One statement: whoever is not found is left out, with a warning.
MeteringPointChangePartFactor(change, member) ==
  share' = [x \in Meters |-> [m \in Owners |->
              IF x \in DOMAIN change /\ m \in Addressed(x, member) /\ entry[x][m] # "none"
                THEN change[x] ELSE share[x][m]]]

\* The form of a member: his entry is looked up, then the factor is stored.
BeginFactorForm == \E x \in Meters, m \in Owners, f \in Shares :
  /\ entry[x][m] # "none" /\ Cardinality(saving) < MaxForms
  /\ saving' = saving \cup {<<x, m, f>>}
  /\ UNCHANGED <<entry, share, sent>>

SaveFactorForm == \E s \in saving :
  /\ MeteringPointChangePartFactor([x \in {s[1]} |-> s[3]], {s[2]})
  /\ saving' = saving \ {s}
  /\ UNCHANGED <<entry, sent>>

\* Every metering point has a current entry.
AssertPartitionFactorMeters(X) == \A x \in X : Current(x) # {}

\* Messages, one to each grid operator; none if one metering point has none.
ChangePartitionFactor(change) ==
  LET operators == {OperatorOf[x] : x \in DOMAIN change} IN
  {[x \in {y \in DOMAIN change : OperatorOf[y] = o} |-> change[x]] : o \in operators}

RequestChangePartitionFactor ==
  \E X \in (SUBSET Meters) \ {{}} : \E change \in [X -> Shares] :
     /\ AssertPartitionFactorMeters(X) /\ \A x \in X : OperatorOf[x] # NoOperator
     /\ sent' = sent \cup ChangePartitionFactor(change) /\ Cardinality(sent') <= MaxSent
     /\ UNCHANGED <<entry, share, saving>>

\* The answer names no member: it finds whoever has the entry by then.
EcPrtChange == \E change \in sent : /\ MeteringPointChangePartFactor(change, {})
                                    /\ UNCHANGED <<entry, saving, sent>>

FactorsNext ==
  \/ \E x \in Meters, m \in Owners : \/ RegisterEntry(x, m) \/ EndEntry(x, m)
                                     \/ ArchiveEntry(x, m) \/ RemoveEntry(x, m)
                                     \/ \E n \in Owners : MoveEntry(x, m, n)
  \/ ListUpdates \/ BeginFactorForm \/ SaveFactorForm
  \/ RequestChangePartitionFactor \/ EcPrtChange

FactorsSpec == FactorsInit /\ [][FactorsNext]_factorVars

-----------------------------------------------------------------------------
\* "The old member's history keeps its factor": whatever the grid operator
\* answers or lists, and however late, the factor of a former member's entry
\* changes only when his own form is saved.
FormerFactorsStay ==
  [][\A x \in Meters, m \in Owners :
        entry[x][m] = "former" /\ entry'[x][m] = "former" /\ share'[x][m] # share[x][m] =>
           <<x, m, share'[x][m]>> \in saving \ saving']_factorVars
=============================================================================
