--------------------------- MODULE EpisodeArchive ---------------------------
(* What the public dataset promises whoever reads it: an episode gets one  *)
(* index, the next, for good; what is known of it never changes, except    *)
(* that a wrong source hash may be put right; an episode that the viewing  *)
(* catalog lists stays listed.                                             *)
EXTENDS Integers, Sequences, SequencesExt

CONSTANTS Episodes, Data, Hashes, NoData

VARIABLES registry,  \* meta/blupe_source_episodes.jsonl
          catalog    \* meta/blupe_viewing.jsonl

vars == <<registry, catalog>>

Entries == [episode: Episodes, data: Data, hash: Hashes]
Listed == {registry[i].episode : i \in DOMAIN registry}

\* At most one episode was registered before, by other means.
Init ==
    /\ registry \in Seq(Entries) /\ Len(registry) <= 1
    /\ catalog \in [Episodes -> Data \cup {NoData}]

\* A new episode takes the next index, and no episode has two.
Add ==
    /\ Len(registry') = Len(registry) + 1
    /\ Front(registry') = registry
    /\ Last(registry') \in Entries
    /\ Last(registry').episode \notin Listed
    /\ UNCHANGED catalog

RepairHash ==
    /\ \E i \in DOMAIN registry :
          /\ registry' = [registry EXCEPT ![i].hash = registry'[i].hash]
          /\ registry'[i].hash \in Hashes
    /\ UNCHANGED catalog

Show ==
    /\ \E e \in Episodes :
          /\ catalog' = [catalog EXCEPT ![e] = catalog'[e]]
          /\ catalog'[e] \in Data
    /\ UNCHANGED registry

Next == Add \/ RepairHash \/ Show

Spec == Init /\ [][Next]_vars
=============================================================================
