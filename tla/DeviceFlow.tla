----------------------------- MODULE DeviceFlow -----------------------------
(***************************************************************************)
(* GitHub's device flow as pollAccessToken runs it (internal/auth): once a *)
(* device code was handed out, a ticker paces the requests that ask        *)
(* whether the user has approved it, until one brings a token or an error, *)
(* or fifteen minutes are over.                                            *)
(*                                                                         *)
(* Time passes in units; the goroutine is taken to run at once when the    *)
(* ticker or the deadline wakes it.  The server may answer any request in  *)
(* any way and as late as the request's own timeout allows.                *)
(***************************************************************************)
EXTENDS Integers

CONSTANTS
  Interval,    \* what the server asks for first
  BackOff,     \* what slow_down adds: 5 s
  ReqTimeout,  \* of one request: 10 s
  Lifetime     \* of the whole loop: 15 min

ASSUME TimesAssumption ==
  {Interval, BackOff, ReqTimeout, Lifetime} \subseteq Nat \ {0}

VARIABLE flow

-----------------------------------------------------------------------------

(* interval, and due, the time to the next tick; ticked: a tick waits in   *)
(* the channel; left, to the deadline; busy, how long the request takes.   *)
(* History: gap, the time since the last request was sent, and late, that  *)
(* it was sent for a tick that had waited; apart and after, what they were *)
(* when the request under way was sent.                                    *)
NoFlow == [at |-> "off", interval |-> Interval, due |-> Interval, ticked |-> FALSE,
           left |-> Lifetime, busy |-> 0, gap |-> Lifetime, late |-> FALSE,
           apart |-> Lifetime, after |-> FALSE]

(* FAULT: the interval is raised and the ticker left alone.                *)
WidenedOnly ==
  [flow EXCEPT !.at = "wait", !.interval = @ + BackOff, !.late = FALSE]

(* interval += 5; ticker.Reset, which also drops a tick that waits.        *)
Widened ==
  [flow EXCEPT !.at = "wait", !.interval = @ + BackOff, !.due = flow.interval + BackOff,
               !.ticked = FALSE, !.late = FALSE]

(* FAULT: a timer in place of the ticker, armed once. *)
DueOnce == flow.due - 1

(* The ticker arms itself again with the interval it was given last.       *)
Due == IF flow.due = 1 THEN flow.interval ELSE flow.due - 1

FlowBegins == flow.at = "off" /\ flow' = [NoFlow EXCEPT !.at = "wait"]

Ask ==
  /\ flow.at = "wait" /\ flow.ticked
  /\ flow' = [flow EXCEPT !.at = "asking", !.ticked = FALSE, !.busy = 0, !.gap = 0,
                          !.late = flow.due < flow.interval,
                          !.apart = flow.gap, !.after = flow.late]

(* authorization_pending, a server error, a broken or timed out request.   *)
AskAgain ==
  /\ flow.at = "asking"
  /\ flow' = [flow EXCEPT !.at = "wait", !.busy = 0]

SlowDown ==
  /\ flow.at = "asking" /\ flow.left > 0
  /\ flow' = [Widened EXCEPT !.busy = 0]

FlowToken == flow.at = "asking" /\ flow.left > 0 /\ flow' = NoFlow

(* access_denied, expired_token, an answer that cannot be read; or, while  *)
(* no request is under way, the deadline.                                  *)
FlowError ==
  /\ (flow.at = "asking" /\ flow.left > 0) \/ (flow.at = "wait" /\ flow.left = 0)
  /\ flow' = NoFlow

(* A unit of time; nobody who can run at once is kept waiting.             *)
TimePasses ==
  /\ flow.left > 0
  /\ \/ flow.at = "wait" /\ ~flow.ticked
     \/ flow.at = "asking" /\ flow.busy < ReqTimeout
  /\ flow' = [flow EXCEPT
       !.left = @ - 1,
       !.due = Due,
       !.ticked = @ \/ flow.due = 1,
       !.busy = IF flow.at = "asking" THEN @ + 1 ELSE @,
       !.gap = IF @ < Lifetime THEN @ + 1 ELSE @]

FlowSteps == Ask \/ AskAgain \/ SlowDown \/ TimePasses

-----------------------------------------------------------------------------

FlowTypeOK ==
  /\ flow \in [at : {"off", "wait", "asking"}, interval : Nat \ {0}, due : Nat \ {0},
              ticked : BOOLEAN, left : 0..Lifetime, busy : 0..ReqTimeout,
              gap : 0..Lifetime, late : BOOLEAN, apart : 0..Lifetime, after : BOOLEAN]
  /\ flow.due <= flow.interval

(* "honoring the server-specified interval between requests": a request is *)
(* sent no sooner than the interval of the moment after the one before,    *)
(* which slow_down may have raised in between; except that the one before  *)
(* was late, because the one before that took longer than the interval and *)
(* a tick was waiting.                                                     *)
IntervalKept ==
  flow.at = "asking" => flow.apart >= flow.interval \/ flow.after

(* The inductive invariant behind it.  The ticker has been armed within    *)
(* the flow; and the time since the last request and the time to the next  *)
(* tick make an interval, unless that request was late.                    *)
FlowInv ==
  /\ FlowTypeOK /\ IntervalKept
  /\ flow.interval <= flow.due + (Lifetime - flow.left)
  /\ ~flow.late =>
       /\ flow.interval <= flow.gap + flow.due
       /\ flow.ticked => flow.interval <= flow.gap

=============================================================================
