--------------------------- MODULE AtomicInstance ---------------------------
(***************************************************************************)
(* What the operations on an instance promise to its users when no two of  *)
(* them overlap: each takes effect at one moment, or not at all.  Seen     *)
(* from outside, a recreate or a rotation exchanges what the instance      *)
(* carries, and what the database has on record of it, in one step, and    *)
(* leaves it running or not as it was.  How containers are parked,         *)
(* created, started and undone for that is the business of Lifecycle,      *)
(* which implements this module.                                           *)
(***************************************************************************)
CONSTANTS Secrets,    \* keys and tokens, and NoSecret
          Original,   \* the key of an instance from before there were records
          NoSecret

VARIABLES inst,       \* the instance: there, running, and the key and token it carries
          record,     \* the key and the token the database has on record
          accepted,   \* the keys LiteLLM accepts
          want        \* the last start or stop the user was granted

vars == <<inst, record, accepted, want>>

There(running, key, tok) == [there |-> TRUE, running |-> running, key |-> key, tok |-> tok]
NoRecord == [key |-> NoSecret, tok |-> NoSecret]
Gone == [there |-> FALSE, running |-> FALSE, key |-> NoSecret, tok |-> NoSecret]

\* What is on record of an instance at first, if anything, is what it carries.
Init ==
  /\ \E on \in BOOLEAN, k, t \in Secrets : inst = There(on, k, t)
  /\ want = inst.running
  /\ record \in [key : {inst.key, NoSecret}, tok : {inst.tok, NoSecret}]
  /\ accepted \in SUBSET Secrets /\ inst.key \in accepted

\* The user starts or stops it; nothing else does.
Switch(on) ==
  /\ inst.there
  /\ inst' = There(on, inst.key, inst.tok) /\ want' = on
  /\ UNCHANGED <<record, accepted>>

\* It gets a key that works and a token, and both are on record; only its
\* original key may go on without having been.
Replace(k, t) ==
  /\ inst.there /\ k \in accepted
  /\ inst' = There(inst.running, k, t)
  /\ record' = [key |-> IF k = Original /\ record.key = NoSecret THEN NoSecret ELSE k, tok |-> t]
  /\ UNCHANGED <<accepted, want>>

Remove ==
  /\ inst.there
  /\ inst' = Gone /\ record' = NoRecord
  /\ accepted' \in SUBSET accepted
  /\ UNCHANGED want

\* Keys are issued and revoked, but never the one the instance carries.
OtherKeys ==
  /\ accepted' \in SUBSET Secrets
  /\ inst.there => inst.key \in accepted'
  /\ UNCHANGED <<inst, record, want>>

Next ==
  \/ \E on \in BOOLEAN : Switch(on)
  \/ \E k, t \in Secrets : Replace(k, t)
  \/ Remove
  \/ OtherKeys

Spec == Init /\ [][Next]_vars
=============================================================================
