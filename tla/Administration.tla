--------------------------- MODULE Administration ---------------------------
(***************************************************************************)
(* Six parts of the administration that share no state: members, tariffs,  *)
(* factors of participation, the settlement interval, communities, and the *)
(* cache of the list of messages.  No operation touches two of them, so    *)
(* the order of steps of different parts cannot matter: a behaviour is one *)
(* of one part, the topic, while the others stay as they are (and begin in *)
(* fewer ways).                                                            *)
(***************************************************************************)
EXTENDS Members, Tariffs, PartitionFactors, SettlementInterval, Communities, CommunityCache

VARIABLE topic

administrationVars == <<topic, membersVars, tariffVars, factorVars, intervalVars, communityVars, cacheVars>>

Topics == {"members", "tariffs", "factors", "interval", "communities", "cache"}

AdministrationInit == /\ topic \in Topics
                      /\ MembersInit /\ TariffsInit /\ FactorsInit /\ IntervalInit /\ CommunitiesInit /\ CacheInit
                      /\ topic # "members" => \A p \in Ids, part \in PartSet : rows[p][part] = 0
                      /\ topic # "cache" => \A r \in Readers : reader[r].tenant = CHOOSE t \in Tenants : TRUE

MembersTopic == topic = "members" /\ MembersNext
                /\ UNCHANGED <<topic, tariffVars, factorVars, intervalVars, communityVars, cacheVars>>
TariffsTopic == topic = "tariffs" /\ TariffsNext
                /\ UNCHANGED <<topic, membersVars, factorVars, intervalVars, communityVars, cacheVars>>
FactorsTopic == topic = "factors" /\ FactorsNext
                /\ UNCHANGED <<topic, membersVars, tariffVars, intervalVars, communityVars, cacheVars>>
IntervalTopic == topic = "interval" /\ IntervalNext
                 /\ UNCHANGED <<topic, membersVars, tariffVars, factorVars, communityVars, cacheVars>>
CommunitiesTopic == topic = "communities" /\ CommunitiesNext
                    /\ UNCHANGED <<topic, membersVars, tariffVars, factorVars, intervalVars, cacheVars>>
CacheTopic == topic = "cache" /\ CacheNext
              /\ UNCHANGED <<topic, membersVars, tariffVars, factorVars, intervalVars, communityVars>>

AdministrationNext == \/ MembersTopic \/ TariffsTopic \/ FactorsTopic
                      \/ IntervalTopic \/ CommunitiesTopic \/ CacheTopic

AdministrationSpec == AdministrationInit /\ [][AdministrationNext]_administrationVars
=============================================================================
