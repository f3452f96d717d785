----------------------------- MODULE NativeClient -----------------------------
(***************************************************************************)
(* The connected native client (buildConnectedClient in                    *)
(* src/native/client.ts) over the binding (src/native/aa-ffi-node): one    *)
(* lazily opened session shared by every call, an advisory sendEvent whose *)
(* failure is stashed, and a close that tears the session down and then    *)
(* throws the stash.                                                       *)
(*                                                                         *)
(* Each call is made at most once and runs from one await to the next.     *)
(* The session a call opens, if it opens one, carries the call's name.     *)
(***************************************************************************)
CONSTANTS
  Queries,       \* queryPolicy calls
  Registers,     \* register calls
  Sends,         \* sendEvent calls
  Closes,        \* close calls
  SerialCloses,  \* TRUE: the application never overlaps two close calls
  None

Openers == Queries \cup Registers \cup Sends
Calls == Openers \cup Closes

ASSUME NoneAssumption == None \notin Calls
ASSUME SerialAssumption == SerialCloses \in BOOLEAN
ASSUME DisjointAssumption ==
  /\ Queries \cap Registers = {}
  /\ Sends \cap (Queries \cup Registers) = {}
  /\ Closes \cap Openers = {}

VARIABLES
  session,           \* the binding's sessions, by the call that opened them
  handlePromise,     \* the session of the memoized connect, or None
  activeHandle,      \* the session of the resolved handle, or None
  pendingSendError,  \* the stashed error, or None
  at,                \* where each call is
  handle,            \* the session whose promise a call took
  stashed,           \* close's stashedSendError
  thrown             \* the stashed error a call threw, if it threw one

client == <<handlePromise, activeHandle, pendingSendError>>
vars == <<session, client, at, handle, stashed, thrown>>

\* The error of a failed send, told apart by the send and by its class:
\* NativeConnectError or NativeSendEventError.
Errors == [kind : {"connect", "send"}, of : Sends]

Places == {"idle", "connecting", "asking", "disconnecting", "done", "threw"}
Settled == {"done", "threw"}

TypeOK ==
  /\ session \in [Openers -> {"unused", "connecting", "open", "failed", "shut"}]
  /\ handlePromise \in Openers \cup {None}
  /\ activeHandle \in Openers \cup {None}
  /\ pendingSendError \in Errors \cup {None}
  /\ at \in [Calls -> Places]
  /\ handle \in [Calls -> Openers \cup {None}]
  /\ stashed \in [Closes -> Errors \cup {None}]
  /\ thrown \in [Calls -> Errors \cup {None}]

Init ==
  /\ session = [s \in Openers |-> "unused"]
  /\ handlePromise = None
  /\ activeHandle = None
  /\ pendingSendError = None
  /\ at = [c \in Calls |-> "idle"]
  /\ handle = [c \in Calls |-> None]
  /\ stashed = [c \in Closes |-> None]
  /\ thrown = [c \in Calls |-> None]

-----------------------------------------------------------------------------
Goto(c, place) == at' = [at EXCEPT ![c] = place]

\* Mutant: every call connects for itself.
Memoized_Never == FALSE

Memoized == handlePromise # None

\* getHandle: take the memoized promise, or connect and memoize.
GetHandle(c) ==
  /\ Goto(c, "connecting")
  /\ \/ /\ Memoized
        /\ handle' = [handle EXCEPT ![c] = handlePromise]
        /\ UNCHANGED <<session, handlePromise>>
     \/ /\ ~Memoized
        /\ session' = [session EXCEPT ![c] = "connecting"]
        /\ handlePromise' = c
        /\ handle' = [handle EXCEPT ![c] = c]

\* Mutant: only the handle that is still active counts as connected.
HandleReady_Active(c) == at[c] = "connecting" /\ handle[c] = activeHandle

\* The promise a call took resolved (its session may be shut by now) or failed.
HandleReady(c) == at[c] = "connecting" /\ session[handle[c]] \in {"open", "shut"}
HandleFailed(c) == at[c] = "connecting" /\ session[handle[c]] = "failed"

ConnectSettles(s) ==
  /\ session[s] = "connecting"
  /\ session' = [session EXCEPT ![s] = "open"]
  /\ activeHandle' = s
  /\ UNCHANGED <<handlePromise, pendingSendError, at, handle, stashed, thrown>>

\* Mutants: the rejected promise stays memoized; the memo keeps the error.
MemoAfterFailure_Kept == handlePromise
MemoAfterFailure_Error == "failed"

MemoAfterFailure == None

ConnectFails(s) ==
  /\ session[s] = "connecting"
  /\ session' = [session EXCEPT ![s] = "failed"]
  /\ handlePromise' = MemoAfterFailure
  /\ activeHandle' = None
  /\ UNCHANGED <<pendingSendError, at, handle, stashed, thrown>>

-----------------------------------------------------------------------------
\* Mutant: the stash is thrown and kept.
StashAfterThrow_Kept == pendingSendError

StashAfterThrow == None

\* queryPolicy throws a stashed send error before anything else.
QueryPolicy(q) ==
  /\ at[q] = "idle"
  /\ \/ /\ pendingSendError # None
        /\ thrown' = [thrown EXCEPT ![q] = pendingSendError]
        /\ pendingSendError' = StashAfterThrow
        /\ Goto(q, "threw")
        /\ UNCHANGED <<session, handlePromise, handle>>
     \/ /\ pendingSendError = None
        /\ GetHandle(q)
        /\ UNCHANGED <<pendingSendError, thrown>>
  /\ UNCHANGED <<activeHandle, stashed>>

Register(r) ==
  /\ at[r] = "idle"
  /\ GetHandle(r)
  /\ UNCHANGED <<activeHandle, pendingSendError, stashed, thrown>>

\* A binding that has no register yet (AAASM-3400) resolves it to an empty token.
RegisterMissing(r) ==
  /\ at[r] = "idle"
  /\ Goto(r, "done")
  /\ UNCHANGED <<session, client, handle, stashed, thrown>>

\* With the handle in hand the call goes to the binding; a failed connect throws.
Asks(c) ==
  /\ \/ HandleReady(c) /\ Goto(c, "asking")
     \/ HandleFailed(c) /\ Goto(c, "threw")
  /\ UNCHANGED <<session, client, handle, stashed, thrown>>

\* The binding's queryPolicy or register promise settles, either way.
Answered(c) ==
  /\ at[c] = "asking"
  /\ \E place \in Settled : Goto(c, place)
  /\ UNCHANGED <<session, client, handle, stashed, thrown>>

-----------------------------------------------------------------------------
\* The binding's sendEvent returns only while the session is open, and may
\* fail then too: the runtime behind it can be gone.
Enqueue(e, s) ==
  \/ session[s] = "open" /\ UNCHANGED pendingSendError
  \/ pendingSendError' = [kind |-> "send", of |-> e]

\* sendEvent: at once on an active handle, otherwise after getHandle.
SendEvent(e) ==
  /\ at[e] = "idle"
  /\ \/ /\ activeHandle # None
        /\ Enqueue(e, activeHandle)
        /\ Goto(e, "done")
        /\ UNCHANGED <<session, handlePromise, handle>>
     \/ /\ activeHandle = None
        /\ GetHandle(e)
        /\ UNCHANGED pendingSendError
  /\ UNCHANGED <<activeHandle, stashed, thrown>>

\* The rest of a deferred send; its failure is stashed, a failed connect too.
SendDeferred(e) ==
  /\ \/ HandleReady(e) /\ Enqueue(e, handle[e])
     \/ HandleFailed(e) /\ pendingSendError' = [kind |-> "connect", of |-> e]
  /\ Goto(e, "done")
  /\ UNCHANGED <<session, handlePromise, activeHandle, handle, stashed, thrown>>

-----------------------------------------------------------------------------
Closing(k) == at[k] \notin {"idle"} \cup Settled

\* What a close does with the stash once nothing is left to tear down.
ThrowStash(k, error) ==
  /\ Goto(k, IF error = None THEN "done" ELSE "threw")
  /\ thrown' = [thrown EXCEPT ![k] = error]

\* Mutant: a stashed error short-circuits the teardown.
MustDisconnect_UnlessStash == handlePromise # None /\ pendingSendError = None

MustDisconnect == handlePromise # None

Close(k) ==
  /\ at[k] = "idle"
  /\ SerialCloses => \A j \in Closes : ~Closing(j)
  /\ stashed' = [stashed EXCEPT ![k] = pendingSendError]
  /\ pendingSendError' = None
  /\ \/ /\ MustDisconnect
        /\ Goto(k, "connecting")
        /\ handle' = [handle EXCEPT ![k] = handlePromise]
        /\ UNCHANGED thrown
     \/ /\ ~MustDisconnect
        /\ ThrowStash(k, pendingSendError)
        /\ UNCHANGED handle
  /\ UNCHANGED <<session, handlePromise, activeHandle>>

\* A connect that fails under close rejects it, and the stash is dropped.
Disconnect(k) ==
  /\ \/ HandleReady(k) /\ Goto(k, "disconnecting")
     \/ HandleFailed(k) /\ Goto(k, "threw")
  /\ UNCHANGED <<session, client, handle, stashed, thrown>>

\* The binding shuts the session down before its promise reaches JavaScript.
SessionShuts(k) ==
  /\ at[k] = "disconnecting"
  /\ session[handle[k]] = "open"
  /\ session' = [session EXCEPT ![handle[k]] = "shut"]
  /\ UNCHANGED <<client, at, handle, stashed, thrown>>

\* Mutant: the finally forgets to reset the active handle.
ActiveAfterDisconnect_Kept == activeHandle

ActiveAfterDisconnect == None

\* disconnect settled, and the finally forgets the session either way.  A failed
\* one (ERR_DISCONNECT) may have left it up, and its error wins over the stash.
Disconnected(k) ==
  /\ at[k] = "disconnecting"
  /\ handlePromise' = None
  /\ activeHandle' = ActiveAfterDisconnect
  /\ \/ session[handle[k]] = "shut" /\ ThrowStash(k, stashed[k])
     \/ Goto(k, "threw") /\ UNCHANGED thrown
  /\ UNCHANGED <<session, pendingSendError, handle, stashed>>

-----------------------------------------------------------------------------
Next ==
  \/ \E s \in Openers : ConnectSettles(s)
  \/ \E s \in Openers : ConnectFails(s)
  \/ \E q \in Queries : QueryPolicy(q)
  \/ \E r \in Registers : Register(r)
  \/ \E r \in Registers : RegisterMissing(r)
  \/ \E c \in Queries \cup Registers : Asks(c)
  \/ \E c \in Queries \cup Registers : Answered(c)
  \/ \E e \in Sends : SendEvent(e)
  \/ \E e \in Sends : SendDeferred(e)
  \/ \E k \in Closes : Close(k)
  \/ \E k \in Closes : Disconnect(k)
  \/ \E k \in Closes : SessionShuts(k)
  \/ \E k \in Closes : Disconnected(k)

Spec == Init /\ [][Next]_vars

\* Continuations run, and the binding settles what it was asked: connect and
\* disconnect return, and a query is answered or fails open within 5 seconds.
Fairness ==
  /\ \A s \in Openers : WF_vars(ConnectSettles(s) \/ ConnectFails(s))
  /\ \A c \in Queries \cup Registers : WF_vars(Asks(c) \/ Answered(c))
  /\ \A e \in Sends : WF_vars(SendDeferred(e))
  /\ \A k \in Closes : WF_vars(Disconnect(k) \/ SessionShuts(k) \/ Disconnected(k))

FairSpec == Spec /\ Fairness

-----------------------------------------------------------------------------
(* What the client keeps true between steps.                               *)

\* A call waits on a promise that was started and goes on with one that
\* resolved, and a call not yet made has started none.
PromisesAreStarted ==
  /\ \A c \in Calls : at[c] = "connecting" =>
       handle[c] # None /\ session[handle[c]] # "unused"
  /\ \A c \in Calls : at[c] \in {"asking", "disconnecting"} =>
       handle[c] # None /\ session[handle[c]] \in {"open", "shut"}
  /\ \A s \in Openers : at[s] = "idle" => session[s] = "unused"

\* A close under way owns the memoized session: no other close runs, and the
\* session it took is still the memoized one unless its connect failed.
CloseOwnsSession ==
  SerialCloses =>
    /\ \A j, k \in Closes : Closing(j) /\ Closing(k) => j = k
    /\ \A k \in Closes : Closing(k) =>
         \/ handle[k] = handlePromise
         \/ at[k] = "connecting" /\ session[handle[k]] = "failed"

\* A connect in flight is the memoized one.
ConnectIsHeld ==
  \A s \in Openers : session[s] = "connecting" => handlePromise = s

\* A close has thrown nothing before it settles.
NothingThrownYet ==
  \A k \in Closes : at[k] \notin Settled => thrown[k] = None

\* Every error in hand comes from a send that is over.
ErrorsAreFromSends ==
  /\ pendingSendError # None => at[pendingSendError.of] = "done"
  /\ \A k \in Closes : stashed[k] # None => at[stashed[k].of] = "done"
  /\ \A c \in Calls : thrown[c] # None => at[thrown[c].of] = "done"

\* No error is in two hands at once.
ErrorInOneHand ==
  /\ pendingSendError # None =>
       \A k \in Closes : Closing(k) => stashed[k] # pendingSendError
  /\ \A j, k \in Closes :
       Closing(j) /\ Closing(k) /\ stashed[j] # None /\ stashed[j] = stashed[k]
         => j = k

-----------------------------------------------------------------------------
(* Properties.                                                             *)

\* A close of this session ended in an error of its own, no stashed one: its
\* caller knows that the teardown failed.
TeardownFailed(k, s) ==
  at[k] = "threw" /\ thrown[k] = None /\ handle[k] = s

\* No session leaks unnoticed: a session that is live, or is being opened, is the
\* one the client holds, so that the next close can tear it down, or a close has
\* told its caller that it could not.  In particular concurrent calls never open
\* two, and an error of the teardown is never hidden by a stashed one.
LiveSessionIsHeld ==
  \A s \in Openers : session[s] \in {"connecting", "open"} =>
    handlePromise = s \/ \E k \in Closes : TeardownFailed(k, s)

\* The part of it about sessions that are up, as close's comment has it: while no
\* teardown fails, the native session is actually released, never left live
\* behind the client.
OpenSessionIsHeld ==
  (\A k \in Closes, s \in Openers : ~TeardownFailed(k, s)) =>
    \A s \in Openers : session[s] = "open" => handlePromise = s

\* The memoized promise is usable: a failed connect is never memoized, and a
\* session that was shut is forgotten by the close that shut it.
MemoIsUsable ==
  handlePromise # None =>
    \/ session[handlePromise] \in {"connecting", "open"}
    \/ /\ session[handlePromise] = "shut"
       /\ \E k \in Closes : at[k] = "disconnecting" /\ handle[k] = handlePromise

\* The fast path and the memo agree: sendEvent never writes to a session that
\* the client no longer holds.
ActiveIsHeld ==
  activeHandle # None => activeHandle = handlePromise

\* A stashed send error is thrown to at most one caller, and once it was
\* thrown it is neither in the stash nor captured by a close in progress.
ErrorThrownOnce ==
  \A c \in Calls :
    thrown[c] # None =>
      /\ pendingSendError # thrown[c]
      /\ \A d \in Calls \ {c} : thrown[d] # thrown[c]
      /\ \A k \in Closes \ {c} : Closing(k) => stashed[k] # thrown[c]

\* A close that returns, or that throws a stashed error, has torn down the session
\* it found (AAASM-4699); where it did not, it throws the disconnect's own error.
CloseTearsDown ==
  [][\A k \in Closes :
       at[k] \notin Settled /\ at'[k] \in Settled =>
         IF at[k] = "idle" THEN handlePromise = None
         ELSE session'[handle[k]] \in {"failed", "shut"} \/ TeardownFailed(k, handle[k])']_vars

\* No call hangs in the client, whatever is closed or fails around it.
CallsSettle == \A c \in Calls : at[c] # "idle" ~> at[c] \in Settled
=============================================================================
