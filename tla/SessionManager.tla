--------------------------- MODULE SessionManager ---------------------------
(***************************************************************************)
(* The session manager of package session (src/unnamed/part_003, lines    *)
(* 189-323 of the part, manager.go of the repository).  Accept, the       *)
(* watcher goroutine that Accept starts for each session, and Terminate   *)
(* share the map sessions under mgr's mutex; IDs come from genIncrement.  *)
(*                                                                         *)
(* Every critical section of the code is one action: Accept holds the     *)
(* mutex from the ID loop to its return (the Unlock is deferred to the    *)
(* function's end), the watcher holds it around one delete, Terminate     *)
(* around one lookup and Release.  No read is carried across an unlock,   *)
(* so no finer step is observable.                                         *)
(*                                                                         *)
(* A slot is one connection handler that calls Accept over and over: a    *)
(* new Accept starts when the slot's previous session has ended or its    *)
(* Accept was refused.  The session application, which the code leaves    *)
(* to the acceptor's backend, may Release its session at any time.        *)
(***************************************************************************)
EXTENDS Naturals

CONSTANTS
    Slots,       \* connection handlers calling Accept
    IDBits,      \* width of ID (uint32 in the code)
    maxIDtries,  \* the code's maxIDtries
    NoSession    \* the absent map entry (a nil Server)

IDSpace == 2 ^ IDBits
IDs == 1 .. (IDSpace - 1)          \* genIncrement never hands out 0

ASSUME NoSession \notin Slots /\ IDBits \in Nat \ {0} /\ maxIDtries \in Nat \ {0}

\* gen:      genIncrement.id
\* sessions: the map mgr.sessions, NoSession where the key is absent
\* state:    where each slot's current Accept/session is
\* sid:      the id variable of the slot's current Accept
VARIABLES gen, sessions, state, sid

vars == <<gen, sessions, state, sid>>

States == {"idle", "refused", "live", "released", "ended"}

\* genIncrement.NextID: increment modulo the width of ID, skipping 0.
NextID(g) == IF (g + 1) % IDSpace = 0 THEN 1 ELSE (g + 1) % IDSpace

\* Mutant: the ID loop without the "not in use" test.
PickIDAny(g, s, i) == [gen |-> NextID(g), id |-> NextID(g)]

\* The ID loop of Accept, from try i with the generator at g over the map
\* s: it stops at the first ID that is non-zero and unused, and otherwise
\* leaves the loop after maxIDtries tries holding the last ID it drew.
RECURSIVE PickID(_, _, _)
PickID(g, s, i) ==
    LET id == NextID(g) IN
    IF (id # 0 /\ s[id] = NoSession) \/ i = maxIDtries - 1
    THEN [gen |-> id, id |-> id]
    ELSE PickID(id, s, i + 1)

Init ==
    /\ gen = 0
    /\ sessions = [i \in IDs |-> NoSession]
    /\ state = [c \in Slots |-> "idle"]
    /\ sid = [c \in Slots |-> 0]

\* Accept.  No acceptor supports the transport: an error before the lock.
\* Otherwise, under the lock: the ID loop (the "id == 0" error that
\* follows it is unreachable, genIncrement never returns 0); the backend's
\* acceptor.Accept, which may fail; tracking the session, after which the
\* watcher goroutine is started.  An acceptor returning a session whose
\* ID() is not the requested ID breaks the Acceptor contract and is not
\* modelled.
Accept(c) ==
    /\ state[c] \in {"idle", "refused", "ended"}
    /\ \/ /\ state' = [state EXCEPT ![c] = "refused"]
          /\ UNCHANGED <<gen, sessions, sid>>
       \/ LET r == PickID(gen, sessions, 0) IN
          /\ gen' = r.gen
          /\ sid' = [sid EXCEPT ![c] = r.id]
          /\ \/ /\ state' = [state EXCEPT ![c] = "refused"]
                /\ UNCHANGED sessions
             \/ /\ sessions' = [sessions EXCEPT ![r.id] = c]
                /\ state' = [state EXCEPT ![c] = "live"]

\* The application ends its session: Release closes the Wait channel.
Release(c) ==
    /\ state[c] = "live"
    /\ state' = [state EXCEPT ![c] = "released"]
    /\ UNCHANGED <<gen, sessions, sid>>

\* Terminate(id): under the lock, Release the session the map holds for id
\* (a second Release of a released session changes nothing).  An id with
\* no entry returns an error and changes nothing.
Terminate(i) ==
    /\ sessions[i] # NoSession
    /\ state[sessions[i]] = "live"
    /\ state' = [state EXCEPT ![sessions[i]] = "released"]
    /\ UNCHANGED <<gen, sessions, sid>>

\* The watcher goroutine: once Wait is closed it takes the lock and
\* deletes the map entry under the session's ID, whatever it holds now.
Watcher(c) ==
    /\ state[c] = "released"
    /\ sessions' = [sessions EXCEPT ![sid[c]] = NoSession]
    /\ state' = [state EXCEPT ![c] = "ended"]
    /\ UNCHANGED <<gen, sid>>

Next ==
    \/ \E c \in Slots : Accept(c)
    \/ \E c \in Slots : Release(c)
    \/ \E i \in IDs : Terminate(i)
    \/ \E c \in Slots : Watcher(c)

\* Accept, Release and Terminate are calls of the environment and need not
\* happen; the only property is a safety property, so no fairness is
\* assumed.
Spec == Init /\ [][Next]_vars

\* ---------------------------------------------------------------------
\* Properties
\* ---------------------------------------------------------------------

\* The map is exactly the set of sessions Terminate must reach: every live
\* or released session whose watcher has not run is the entry under its
\* own ID, and every entry is such a session.  (Accept's comment: "get a
\* unique, valid session ID"; the watcher deletes by ID.)
SessionMapExact ==
    /\ \A c \in Slots :
          state[c] \in {"live", "released"} => sessions[sid[c]] = c
    /\ \A i \in IDs :
          sessions[i] # NoSession =>
             /\ state[sessions[i]] \in {"live", "released"}
             /\ sid[sessions[i]] = i

=============================================================================
