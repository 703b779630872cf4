--------------------------- MODULE SyncController ---------------------------
(***************************************************************************)
(* The sync controller (cloud/pkg/synccontroller) compares every           *)
(* ObjectSync of its lister with the object in the API server and sends    *)
(* what the edge seems to miss.                                            *)
(***************************************************************************)
EXTENDS ObjectMessages

VARIABLES api, syncSeen, toHub,
          managing   \* the message manageObject is about to send, or None

SCInit == managing = None

\* Mutant: the versions are not compared.
ManageObjectByUID(u) ==
  /\ managing = None /\ syncSeen[u] # None
  /\ LET s == syncSeen[u]
         o == api[s.key]
     IN  /\ o # None /\ o.uid # u
         /\ managing' = NewMessage("delete", s.key, o)
  /\ UNCHANGED <<api, syncSeen, toHub>>

\* manageObject reads the object: nothing is sent when it is gone, a deletion
\* when it has another UID, an update when its version is newer.
ManageObject(u) ==
  /\ managing = None /\ syncSeen[u] # None
  /\ LET s == syncSeen[u]
         o == api[s.key]
     IN  /\ o # None
         /\ \/ /\ o.uid # u
               /\ managing' = NewMessage("delete", s.key, o)
            \/ /\ o.uid = u /\ s.version # 0 /\ o.rv > s.version
               /\ managing' = NewMessage("update", s.key, o)
  /\ UNCHANGED <<api, syncSeen, toHub>>

\* sendEvents hands the message to cloudhub.
SendEvents ==
  /\ managing # None /\ Len(toHub) < ChannelSize
  /\ toHub' = Append(toHub, managing)
  /\ managing' = None
  /\ UNCHANGED <<api, syncSeen>>

SCRestart == managing' = None
=============================================================================
