----------------------------- MODULE HostWatch -----------------------------
(***************************************************************************)
(* What the dashboard is promised about Docker events: the events of a     *)
(* host reach it through at most one subscription, only while the host is  *)
(* registered and enabled, and through none once the manager has shut      *)
(* down.  How the subscription is opened, retried and replaced is the      *)
(* business of EventStreams, which implements this module.                 *)
(***************************************************************************)
CONSTANTS Hosts,      \* ids of the hosts table
          Streams     \* identities a subscription can have

VARIABLES allowed,    \* hosts that are registered and enabled
          subs,       \* subs[h]: the streams whose events are broadcast for h
          open        \* FALSE once the manager has shut down

vars == <<allowed, subs, open>>

Init ==
  /\ allowed \in SUBSET Hosts
  /\ subs = [h \in Hosts |-> {}]
  /\ open = TRUE

\* An edit of a host (registered, patched, deleted) ends its subscription.
Edit(h) ==
  /\ open
  /\ allowed' \in {allowed \cup {h}, allowed \ {h}}
  /\ subs' = [subs EXCEPT ![h] = {}]
  /\ UNCHANGED open

\* Only an allowed host without a subscription gets one.
Subscribe(h, s) ==
  /\ open
  /\ h \in allowed
  /\ subs[h] = {}
  /\ subs' = [subs EXCEPT ![h] = {s}]
  /\ UNCHANGED <<allowed, open>>

Unsubscribe(h) ==
  /\ subs' = [subs EXCEPT ![h] = {}]
  /\ UNCHANGED <<allowed, open>>

Close ==
  /\ open' = FALSE
  /\ subs' = [h \in Hosts |-> {}]
  /\ UNCHANGED allowed

Next ==
  \/ \E h \in Hosts : Edit(h) \/ Unsubscribe(h) \/ \E s \in Streams : Subscribe(h, s)
  \/ Close

Spec == Init /\ [][Next]_vars
=============================================================================
