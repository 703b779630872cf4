------------------------------ MODULE EdgeStore ------------------------------
(***************************************************************************)
(* The edge's side of the delivery: edgehub hands every message to         *)
(* SendToGroup, whose goroutines put them into the channel of metaManager  *)
(* in any order (edge/pkg/edgehub, beehive), and metaManager writes the    *)
(* object into sqlite and answers OK (edge/pkg/metamanager).  down holds   *)
(* the messages on the connection and those already at the edge.           *)
(***************************************************************************)
EXTENDS ObjectMessages

VARIABLES down, up,
          meta      \* meta[k]: UID and version of the saved object, or None

esVars == <<down, up, meta>>

Saved == [uid : UIDs, rv : UIDs]

ESTypeOK == meta \in [Keys -> Saved \cup {None}]

ESInit == meta = [k \in Keys |-> None]

Save(m) == meta' = [meta EXCEPT ![m.key] = [uid |-> m.uid, rv |-> m.rv]]

\* SaveMeta takes no notice of a row that is there already.
ProcessInsert(m) ==
  /\ m.op = "insert"
  /\ IF meta[m.key] = None THEN Save(m) ELSE UNCHANGED meta

ProcessUpdate(m) == m.op = "update" /\ Save(m)

ProcessDelete(m) == m.op = "delete" /\ meta' = [meta EXCEPT ![m.key] = None]

\* The message that comes i-th leaves its goroutine first; metaManager handles
\* it and answers.
Process(i) ==
  /\ i \in 1..Len(down) /\ Len(up) < LinkSize
  /\ LET m == down[i]
     IN  /\ ProcessInsert(m) \/ ProcessUpdate(m) \/ ProcessDelete(m)
         /\ up' = Append(up, m)
  /\ down' = SubSeq(down, 1, i - 1) \o SubSeq(down, i + 1, Len(down))

\* edgecore ends and starts again; sqlite stays.
ESRestart ==
  /\ down' = << >> /\ up' = << >>
  /\ UNCHANGED meta
=============================================================================
