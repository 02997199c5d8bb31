---------------------------- MODULE MCHelmReleases ----------------------------
(* Two repositories and versions that differ in one thing each: the number   *)
(* of digits, the number of fields, a tail that counts and one that does not.*)
(* Revisions pass from one digit to two.  In a second namespace a release    *)
(* rests of whose secrets one has lost all labels but owner=helm, and its    *)
(* payload, and the last one that label too; in a third there is none.       *)
EXTENDS HelmReleases

Final(core) == [core |-> core, kind |-> "final", tail |-> <<>>]

MCFirstVersion == Final(<<1, 9, 0>>)
MCVersions == {MCFirstVersion, Final(<<1, 10>>), Final(<<1, 10, 1>>),
               [core |-> <<1, 10, 1>>, kind |-> "pre", tail |-> <<>>],
               [core |-> <<1, 9, 0>>, kind |-> "build", tail |-> <<7>>]}

CONSTANTS n1, n2, n3, app, db

MCUpgraded == [namespace |-> n1, name |-> app]
Nothing(owner) == [owner |-> owner, name |-> None, version |-> None, status |-> None]
MCOthers ==
  {[namespace |-> n2, release |-> db, number |-> 9,
    labels |-> [owner |-> TRUE, name |-> db, version |-> 9, status |-> "superseded"],
    payload |-> [number |-> 9, status |-> "superseded", version |-> MCFirstVersion]],
   [namespace |-> n2, release |-> db, number |-> 10, labels |-> Nothing(TRUE), payload |-> None],
   [namespace |-> n2, release |-> db, number |-> 11, labels |-> Nothing(FALSE), payload |-> None]}
MCOptions ==
  {[included |-> {}, excluded |-> {n2}], [included |-> {n1, n2, n3}, excluded |-> {}]}
=============================================================================
