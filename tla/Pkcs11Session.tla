----------------------------- MODULE Pkcs11Session -----------------------------
(***************************************************************************)
(* Pkcs11SigningProvider (src/hsm/pkcs11.ts): one lazily opened session,   *)
(* the key handles found in it, and a cached public key, shared by calls   *)
(* that suspend at every await.  The token behind Pkcs11ClientLike is      *)
(* external: it hands out session numbers and answers or fails.            *)
(***************************************************************************)
EXTENDS Integers, FiniteSets

CONSTANTS Calls, Builder,   \* the call that runs fromKeyLabel
          MaxSessions       \* bound on sessions the token hands out

SessionAssumption == Builder \in Calls /\ MaxSessions \in Nat \ {0}

VARIABLES
    session,    \* _session: 0 when undefined
    handles,    \* the session _privateHandle and _publicHandle were found in
    cached,     \* _cachedPublicKey is set
    built,      \* fromKeyLabel has returned the provider
    pc,         \* pc[c]: the await call c is at
    op,         \* op[c]: what c does once it has a session
    arg,        \* arg[c]: the session c's pending token call was given
    live,       \* sessions open on the token
    opened,     \* sessions the token has opened
    used,       \* used[c]: what c gave the token: [session, handles, sound]
    closed      \* close has been called

vars == <<session, handles, cached, built, pc, op, arg, live, opened, used, closed>>
-----------------------------------------------------------------------------
Unused == [session |-> 0, handles |-> 0, sound |-> TRUE]

Init ==
    /\ session = 0 /\ handles = 0 /\ cached = FALSE /\ built = FALSE
    /\ pc   = [c \in Calls |-> "idle"]
    /\ op   = [c \in Calls |-> "none"]
    /\ arg  = [c \in Calls |-> 0]
    /\ live = {} /\ opened = 0
    /\ used = [c \in Calls |-> Unused]
    /\ closed = FALSE

Goes(c, at) == pc' = [pc EXCEPT ![c] = at]

(* ensureSession: return at once if there is a session, else open one.     *)
Ensure(c) == Goes(c, IF session # 0 THEN "ready" ELSE "opening")

TokenVars == <<live, opened>>
-----------------------------------------------------------------------------
(* Mutant: fromKeyLabel hands the provider out before its session is open. *)
BuildWithoutWaiting(c) ==
    /\ c = Builder /\ pc[c] = "idle"
    /\ op' = [op EXCEPT ![c] = "build"]
    /\ Ensure(c)
    /\ built' = TRUE
    /\ UNCHANGED <<session, handles, cached, arg, TokenVars, used, closed>>

(* fromKeyLabel: ensureSession, then publicKey, then the caller has it.    *)
Build(c) ==
    /\ c = Builder /\ pc[c] = "idle"
    /\ op' = [op EXCEPT ![c] = "build"]
    /\ Ensure(c)
    /\ UNCHANGED <<session, handles, cached, built, arg, TokenVars, used, closed>>

Sign(c) ==
    /\ built /\ pc[c] = "idle"
    /\ op' = [op EXCEPT ![c] = "sign"]
    /\ Ensure(c)
    /\ UNCHANGED <<session, handles, cached, built, arg, TokenVars, used, closed>>

PublicKey(c) ==
    /\ built /\ pc[c] = "idle"
    /\ op' = [op EXCEPT ![c] = "publicKey"]
    /\ IF cached THEN Goes(c, "done") ELSE Ensure(c)
    /\ UNCHANGED <<session, handles, cached, built, arg, TokenVars, used, closed>>

(* openAndLogin resolves: the session is set, and the handles are asked    *)
(* for in the session just set.                                            *)
OpenReturns(c) ==
    /\ pc[c] = "opening" /\ opened < MaxSessions
    /\ opened'  = opened + 1
    /\ live'    = live \cup {opened + 1}
    /\ session' = opened + 1
    /\ arg'     = [arg EXCEPT ![c] = opened + 1]
    /\ Goes(c, "finding")
    /\ UNCHANGED <<handles, cached, built, op, used, closed>>

FindReturns(c) ==
    /\ pc[c] = "finding" /\ arg[c] \in live
    /\ handles' = arg[c]
    /\ Goes(c, "ready")
    /\ UNCHANGED <<session, cached, built, op, arg, TokenVars, used, closed>>

(* A token call rejects, and with it the call: what was set stays set.     *)
TokenFails(c) ==
    /\ pc[c] \in {"opening", "finding", "using", "closing"}
    /\ Goes(c, "failed")
    /\ UNCHANGED <<session, handles, cached, built, op, arg, TokenVars, used, closed>>

(* After its await of ensureSession a call reads the fields again, and     *)
(* passes them to readEd25519PublicKey or signEdDSA.                       *)
UseToken(c) ==
    /\ pc[c] = "ready"
    /\ used' = [used EXCEPT ![c] =
          [session |-> session, handles |-> handles,
           sound |-> session = handles /\ session \in live]]
    /\ Goes(c, "using")
    /\ UNCHANGED <<session, handles, cached, built, op, arg, TokenVars, closed>>

TokenAnswers(c) ==
    /\ pc[c] = "using" /\ used[c].session \in live
    /\ cached' = (cached \/ op[c] # "sign")
    /\ built'  = (built \/ op[c] = "build")
    /\ Goes(c, "done")
    /\ UNCHANGED <<session, handles, op, arg, TokenVars, used, closed>>

(* close: the token closes the session, then the field is cleared.         *)
Close(c) ==
    /\ built /\ pc[c] = "idle"
    /\ op' = [op EXCEPT ![c] = "close"]
    /\ arg' = [arg EXCEPT ![c] = session]
    /\ closed' = TRUE
    /\ IF session # 0
       THEN live' = live \ {session} /\ Goes(c, "closing")
       ELSE Goes(c, "done") /\ UNCHANGED live
    /\ UNCHANGED <<session, handles, cached, built, opened, used>>

CloseReturns(c) ==
    /\ pc[c] = "closing"
    /\ session' = 0
    /\ Goes(c, "done")
    /\ UNCHANGED <<handles, cached, built, op, arg, TokenVars, used, closed>>

Next ==
    \E c \in Calls :
        \/ Build(c) \/ Sign(c) \/ PublicKey(c) \/ Close(c)
        \/ OpenReturns(c) \/ FindReturns(c) \/ UseToken(c)
        \/ TokenAnswers(c) \/ TokenFails(c) \/ CloseReturns(c)

Spec == Init /\ [][Next]_vars
-----------------------------------------------------------------------------
(* The session is set before its handles are, and a call that finds it set *)
(* goes on at once: still no call reaches the token without handles, and   *)
(* until someone calls close, every call gives the token its one open      *)
(* session and the handles found in that session.  After a close neither   *)
(* the session nor the handles a call reads need be those of its session.  *)
SoundUntilClosed ==
    /\ \A c \in Calls : pc[c] \in {"using", "done"} /\ op[c] = "sign" => used[c].handles # 0
    /\ ~closed => /\ \A c \in Calls : used[c].sound
                  /\ Cardinality(live) <= 1
=============================================================================
