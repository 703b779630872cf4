--------------------------- MODULE ObjectMessages ---------------------------
(***************************************************************************)
(* Objects of the API server and the messages about them that go from the  *)
(* cloud to one edge node.  Resource versions are the numbers of a single  *)
(* counter, as those of etcd, and the UID of an object is the version it   *)
(* was created with.                                                       *)
(***************************************************************************)
EXTENDS Naturals, Sequences, FiniteSets

CONSTANTS Pods, ConfigMaps, Secrets, Services,
          Uses,            \* Uses[p]: config maps and secrets the pods named p refer to
          MaxVersion,      \* bound on the changes of the API server
          ChannelSize,     \* capacity of the channel of module cloudhub
          LinkSize,        \* bound on the messages under way, in each direction
          None

Keys == Pods \cup ConfigMaps \cup Secrets \cup Services
UIDs == 1..MaxVersion

ASSUME ObjectsAssumption ==
  /\ Uses \in [Pods -> SUBSET (ConfigMaps \cup Secrets)]
  /\ None \notin Keys /\ IsFiniteSet(Keys)
ASSUME BoundsAssumption ==
  MaxVersion \in Nat /\ {ChannelSize, LinkSize} \subseteq Nat \ {0}

\* spec is the version of the last change of the specification or of the
\* metadata, terminating says whether the deletion timestamp is set.
Object == [uid : UIDs, rv : UIDs, spec : UIDs, terminating : BOOLEAN]

Event == [type : {"Added", "Modified", "Deleted"}, key : Keys, obj : Object]

\* id tells messages with the same contents apart; cloudhub's dispatcher gives
\* it in the model, where the first comparison of messages follows.
MessageIDs == 0..(2 * LinkSize + 2)
Message == [id : MessageIDs, op : {"insert", "update", "delete"}, key : Keys,
            uid : UIDs, rv : UIDs, terminating : BOOLEAN]

NewMessage(op, k, o) ==
  [id |-> 0, op |-> op, key |-> k, uid |-> o.uid, rv |-> o.rv, terminating |-> o.terminating]
=============================================================================
