----------------------------- MODULE TwinState -----------------------------
(***************************************************************************)
(* What the device twin of an edge node computes when a message about a    *)
(* device arrives (edge/pkg/devicetwin/dtmanager, twin.go and device.go):  *)
(* whether a twin's expected and actual value change, by the versions the  *)
(* cloud and the edge gave them, what is written to sqlite and what is     *)
(* answered to the cloud.                                                  *)
(*                                                                         *)
(* A message is a function from some properties to a twin, or to Nil where *)
(* the JSON has null.  Its type is "rest" when an application of the edge  *)
(* sent it and "sync" when the cloud did.                                  *)
(***************************************************************************)
EXTENDS Naturals

CONSTANTS Properties, Attributes,
          Values,      \* values of twins and attributes
          Invalid,     \* the values of a type other than the twin's
          None,        \* a nil pointer, or an absent map entry
          Cleared,     \* a TwinValue whose Value is nil
          Nil          \* null in a message

TwinValue == Values \cup Invalid \cup {None, Cleared}
Version == [cloud : Nat, edge : Nat] \cup {None}
Twin == [expected : TwinValue, ev : Version, actual : TwinValue, av : Version,
         deleted : BOOLEAN, optional : BOOLEAN]
Attr == [value : Values, optional : BOOLEAN \cup {None}]

Zero == [cloud |-> 0, edge |-> 0]

\* What becomes of one property: its twin, whether that is written to sqlite,
\* the actual value told to the cloud (in a set, empty when nothing is told),
\* an error of the message, a nil pointer dereference.
Result(twin, change, reply) ==
  [twin |-> twin, change |-> change, reply |-> reply, err |-> FALSE, panic |-> FALSE]
Failed(twin) == [Result(twin, FALSE, {}) EXCEPT !.err = TRUE]
Panicked(twin) == [Result(twin, FALSE, {}) EXCEPT !.panic = TRUE]
-----------------------------------------------------------------------------
DealVersionLoose(version, req, type) ==
  IF type = "rest" THEN [ok |-> TRUE, version |-> [version EXCEPT !.edge = @ + 1]]
  ELSE IF req = None THEN [ok |-> type = "delete", version |-> version]
  ELSE IF version.edge > req.edge THEN [ok |-> FALSE, version |-> version]
  ELSE [ok |-> TRUE, version |-> req]

DealVersion(version, req, type) ==
  IF type = "rest" THEN [ok |-> TRUE, version |-> [version EXCEPT !.edge = @ + 1]]
  ELSE IF req = None THEN [ok |-> type = "delete", version |-> version]
  ELSE IF version.cloud > req.cloud \/ version.edge > req.edge THEN [ok |-> FALSE, version |-> version]
  ELSE [ok |-> TRUE, version |-> req]

Filled(version) == IF version = None THEN Zero ELSE version

Told(value) == IF value = Cleared THEN None ELSE value

\* The expected value is cleared before the version of the actual one is
\* looked at: when that one is refused, the twin in memory stays changed and
\* nothing is written.
DealTwinDelete(t, m, type) ==
  LET kind  == IF type = "rest" THEN "rest" ELSE "delete"
      exp   == DealVersion(Filled(t.ev), IF m = Nil THEN None ELSE m.ev, kind)
      t1    == IF t.ev = None THEN [t EXCEPT !.ev = Zero]
               ELSE [t EXCEPT !.expected = Cleared, !.ev = exp.version, !.deleted = TRUE]
      act   == DealVersion(Filled(t.av), IF m = Nil THEN None ELSE m.av, kind)
      t2    == IF t.av = None THEN [t1 EXCEPT !.av = Zero]
               ELSE [t1 EXCEPT !.actual = Cleared, !.av = act.version, !.deleted = TRUE]
      change == t.ev # None \/ t.av # None
  IN  IF type = "rest" /\ ~t.optional THEN Result(t, FALSE, {})
      ELSE IF t.deleted THEN Result(t, FALSE, {None})
      ELSE IF t.ev # None /\ ~exp.ok THEN Result(t, FALSE, {Told(t.actual)})
      ELSE IF t.av # None /\ ~act.ok THEN Result(t1, FALSE, {Told(t1.actual)})
      ELSE Result(t2, change, IF type = "rest" /\ change THEN {Told(t2.actual)} ELSE {})

\* isTwinValueDiff: a value in the message is taken, unless the twin has one
\* already and the new one is not of its type.
IsTwinValueDiff(old, new) == new # None /\ (old = None \/ new \notin Invalid)
WrongType(old, new) == new # None /\ ~IsTwinValueDiff(old, new)

DealTwinCompare(t, m, type) ==
  LET expOk  == IsTwinValueDiff(t.expected, m.expected)
      exp    == DealVersion(Filled(t.ev), m.ev, type)
      t1     == IF ~expOk THEN t
                ELSE IF exp.ok THEN [t EXCEPT !.expected = m.expected, !.ev = exp.version]
                ELSE [t EXCEPT !.ev = Filled(@)]
      refused1 == expOk /\ ~exp.ok
      actOk  == IsTwinValueDiff(t.actual, m.actual) /\ ~refused1
      act    == DealVersion(Filled(t.av), m.av, type)
      t2     == IF ~actOk THEN t1
                ELSE IF act.ok THEN [t1 EXCEPT !.actual = m.actual, !.av = act.version]
                ELSE [t1 EXCEPT !.av = Filled(@)]
      refused2 == actOk /\ ~act.ok
      allow  == ~refused1 /\ ~refused2
      t3     == IF allow THEN [t2 EXCEPT !.deleted = FALSE,
                                         !.optional = IF type = "rest" THEN @ ELSE FALSE]
                ELSE t2
      change == (expOk /\ exp.ok) \/ (actOk /\ act.ok) \/ t3 # t2
      reply  == IF type = "rest"
                THEN IF change THEN {IF actOk THEN m.actual ELSE None} ELSE {}
                ELSE IF refused1 THEN {None} ELSE IF refused2 THEN {Told(t.actual)} ELSE {}
  IN  IF type = "rest" /\ WrongType(t.expected, m.expected) THEN Failed(t)
      ELSE IF (refused1 /\ t.expected = None) \/ (refused2 /\ t.actual = None) THEN Panicked(t2)
      ELSE IF type = "rest" /\ WrongType(t.actual, m.actual) THEN Failed(t1)
      ELSE Result(t3, change, reply)

DealTwinAdd(m, type) ==
  LET exp == DealVersion(Zero, m.ev, type)
      act == DealVersion(Zero, m.av, type)
      new == [expected |-> m.expected,
              ev |-> IF m.expected # None THEN exp.version ELSE IF m.deleted THEN m.ev ELSE None,
              actual |-> m.actual,
              av |-> IF m.actual # None THEN act.version ELSE IF m.deleted THEN m.av ELSE None,
              deleted |-> m.deleted, optional |-> type = "rest"]
  IN  IF m = Nil THEN Failed(None)
      ELSE IF (m.expected # None /\ ~exp.ok) \/ (m.actual # None /\ ~act.ok) THEN Result(None, FALSE, {None})
      ELSE IF {m.expected, m.actual} \cap Invalid # {}
      THEN IF type = "rest" THEN Failed(None) ELSE Result(None, FALSE, {})
      ELSE Result(new, TRUE, IF type = "rest" THEN {new.actual} ELSE {})

DealTwin(t, m, type) ==
  IF t = None THEN DealTwinAdd(m, type)
  ELSE IF m = Nil /\ type = "sync" THEN Panicked(t)
  ELSE IF m = Nil \/ (type = "sync" /\ m.deleted) THEN DealTwinDelete(t, m, type)
  ELSE DealTwinCompare(t, m, type)

\* DealMsgTwin goes through the properties of the message in the order of a Go
\* map, and stops at an error; done are the properties it got through.
DealMsgTwin(twins, msg, type, done) ==
  [p \in done |-> DealTwin(twins[p], msg[p], type)]

UpTo(all, bad) ==
  IF bad = {} THEN {all} ELSE {done \in SUBSET all : \E p \in bad : done \cap bad = {p}}

Dealt(twins, msg, type) ==
  LET all == DealMsgTwin(twins, msg, type, DOMAIN msg)
  IN  UpTo(DOMAIN msg, {p \in DOMAIN msg : all[p].err \/ all[p].panic})

\* A property of null that is not there ends DealMsgTwin without an error for
\* the caller.
Erroneous(twins, msg, type, done) ==
  \E p \in done : DealTwin(twins[p], msg[p], type).err /\ msg[p] # Nil
-----------------------------------------------------------------------------
\* DealMsgAttr: Nil removes an optional attribute.  The attribute of a message
\* is kept in memory as it came, with a nil Optional, which a removal before
\* the next restart dereferences.
DealAttr(a, m) ==
  IF a = None THEN [attr |-> IF m = Nil THEN None ELSE m, panic |-> m = Nil]
  ELSE IF m = Nil THEN [attr |-> IF a.optional = TRUE THEN None ELSE a, panic |-> a.optional = None]
  ELSE [attr |-> [a EXCEPT !.value = m.value,
                           !.optional = IF m.optional # None /\ @ = TRUE THEN m.optional ELSE @],
        panic |-> m.optional # None /\ a.optional = None]

\* The rows of the tables, and what is read back from them: a cleared value is
\* an empty column and reads as nil, a version that is only filled in is not
\* written, a nil Optional is stored as the default.
TwinRow(t) ==
  IF t = None THEN None
  ELSE [t EXCEPT !.expected = Told(@), !.actual = Told(@),
                 !.ev = IF @ = Zero THEN None ELSE @, !.av = IF @ = Zero THEN None ELSE @]

AttrRow(a) == IF a = None THEN None ELSE [a EXCEPT !.optional = IF @ = None THEN TRUE ELSE @]
=============================================================================
