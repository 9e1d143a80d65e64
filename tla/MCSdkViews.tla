----------------------------- MODULE MCSdkViews -----------------------------
(***************************************************************************)
(* SdkViews for TLC: two accounts, a page of 2 and a store of 4 rows.  The *)
(* store is empty, behind the server, or behind with old rows; its thread  *)
(* is known or not.  A scene is a start, the commands that may come (a     *)
(* "fault" of the store counts as one) and how many of them.               *)
(***************************************************************************)
EXTENDS SdkViews

TwiceAt(n) == 2 * n

Stored(ids, tip) ==
  [EmptyDb EXCEPT !.rows = {[key |-> <<"m", n>>, mid |-> n, at |-> AtOf(n),
                             status |-> "sent"] : n \in ids},
                  !.thread = [there |-> tip # 0, tip |-> tip, lastAt |-> AtOf(tip)]]

CONSTANTS a1, a2, p1

Begin(ids, tip, n, commands, k) ==
  [db |-> [x \in {a1, a2} |-> IF x = a1 THEN Stored(ids, tip) ELSE EmptyDb],
   srv |-> [x \in {a1, a2} |-> IF x = a1 THEN n ELSE 1], session |-> a1,
   may |-> commands, left |-> k]

Scenes == {Begin({1}, 1, 1, {"start", "subscribe", "fault"}, 2),
           Begin({1}, 1, 3, {"start", "push", "fault"}, 2),
           Begin({}, 0, 1, {"start", "stop", "close", "subscribe"}, 3),
           Begin({}, 0, 1, {"start", "stop", "fault"}, 3),
           Begin({1, 2}, 5, 5, {"older", "inbox", "push", "fault"}, 3),
           Begin({}, 1, 1, {"older", "fault"}, 2),
           Begin({}, 1, 1, {"enqueue", "inbox"}, 2),
           Begin({}, 0, 0, {"enqueue", "cancel", "retry", "flaky"}, 3),
           Begin({1}, 1, 1, {"read", "wake", "device", "start"}, 2),
           Begin({}, 4, 4, {"delete", "older", "fault"}, 2),
           Begin({}, 0, 1, {"contact", "refresh", "start"}, 2),
           Begin({}, 0, 1, {"contact", "refresh", "fault"}, 3),
           Begin({}, 1, 1, {"group", "older", "enqueue"}, 2)}
=============================================================================
