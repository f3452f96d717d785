-------------------------- MODULE NativeClientProofs --------------------------
(* Safety of the native client for any calls made on it.                     *)
EXTENDS NativeClient, TLAPS

LEMMA CallsSplit ==
  /\ Openers \subseteq Calls /\ Closes \subseteq Calls
  /\ Queries \subseteq Openers /\ Registers \subseteq Openers /\ Sends \subseteq Openers
  /\ None \notin Openers
  /\ Closes \cap Openers = {}
PROOF
  BY NoneAssumption, DisjointAssumption DEF Openers, Calls

-----------------------------------------------------------------------------
(* Types.                                                                   *)

LEMMA InitTypes == Init => TypeOK
PROOF
  BY DEF Init, TypeOK, Places

LEMMA NextTypes == TypeOK /\ [Next]_vars => TypeOK'
PROOF
<1> SUFFICES ASSUME TypeOK, [Next]_vars PROVE TypeOK'
  OBVIOUS
<1> USE CallsSplit
<1>1. ASSUME NEW s \in Openers, ConnectSettles(s) \/ ConnectFails(s)
      PROVE  TypeOK'
  BY <1>1 DEF ConnectSettles, ConnectFails, MemoAfterFailure, TypeOK
<1>2. ASSUME NEW q \in Queries, QueryPolicy(q)
      PROVE  TypeOK'
  BY <1>2 DEF QueryPolicy, GetHandle, Goto, StashAfterThrow, TypeOK, Places
<1>3. ASSUME NEW r \in Registers, Register(r)
      PROVE  TypeOK'
  BY <1>3 DEF Register, GetHandle, Goto, TypeOK, Places
<1>4. ASSUME NEW c \in Queries \cup Registers,
             Asks(c) \/ Answered(c) \/ RegisterMissing(c)
      PROVE  TypeOK'
  BY <1>4 DEF Asks, Answered, RegisterMissing, Goto, client, Settled, TypeOK, Places
<1>5. ASSUME NEW e \in Sends, SendEvent(e)
      PROVE  TypeOK'
  BY <1>5 DEF SendEvent, Enqueue, GetHandle, Goto, TypeOK, Places, Errors
<1>6. ASSUME NEW e \in Sends, SendDeferred(e)
      PROVE  TypeOK'
  BY <1>6 DEF SendDeferred, Enqueue, Goto, TypeOK, Places, Errors
<1>7. ASSUME NEW k \in Closes, Close(k)
      PROVE  TypeOK'
  BY <1>7 DEF Close, ThrowStash, MustDisconnect, Goto, TypeOK, Places
<1>8. ASSUME NEW k \in Closes, Disconnect(k) \/ SessionShuts(k)
      PROVE  TypeOK'
  BY <1>8 DEF Disconnect, SessionShuts, client, Goto, TypeOK, Places
<1>9. ASSUME NEW k \in Closes, Disconnected(k)
      PROVE  TypeOK'
  BY <1>9 DEF Disconnected, ActiveAfterDisconnect, ThrowStash, Goto, TypeOK, Places
<1>10. CASE UNCHANGED vars
  BY <1>10 DEF vars, client, TypeOK
<1> QED
  BY <1>1, <1>2, <1>3, <1>4, <1>5, <1>6, <1>7, <1>8, <1>9, <1>10 DEF Next

\* Every variable of the client keeps its type.
THEOREM TypeCorrect == Spec => []TypeOK
PROOF
  BY InitTypes, NextTypes, PTL DEF Spec

-----------------------------------------------------------------------------
(* Sessions.                                                                *)

\* The memo is usable because only the close that owns the memoized session
\* forgets it, and only a call not yet made opens one.
SessionInv ==
  /\ PromisesAreStarted
  /\ CloseOwnsSession
  /\ ConnectIsHeld
  /\ MemoIsUsable
  /\ ActiveIsHeld

LEMMA InitSessions == Init => SessionInv
PROOF
  BY CallsSplit DEF Init, SessionInv, PromisesAreStarted, CloseOwnsSession, Closing,
         ConnectIsHeld, MemoIsUsable, ActiveIsHeld

\* getHandle keeps the session invariant when nothing else changes.
LEMMA GetHandleKeepsSessions ==
  ASSUME TypeOK, SessionInv, NEW c \in Openers, at[c] = "idle",
         GetHandle(c), UNCHANGED activeHandle
  PROVE  SessionInv'
PROOF
<1> USE CallsSplit
<1>1. /\ at' = [at EXCEPT ![c] = "connecting"]
      /\ \A k \in Closes : at'[k] = at[k] /\ handle'[k] = handle[k]
      /\ session[c] = "unused"
  BY DEF GetHandle, Goto, TypeOK, SessionInv, PromisesAreStarted
<1>2. CASE /\ handlePromise # None
           /\ handle' = [handle EXCEPT ![c] = handlePromise]
           /\ UNCHANGED <<session, handlePromise>>
  <2>1. session[handlePromise] # "unused"
    BY <1>2 DEF SessionInv, MemoIsUsable
  <2>2. PromisesAreStarted'
    BY <1>1, <1>2, <2>1 DEF TypeOK, SessionInv, PromisesAreStarted
  <2> QED
    BY <1>1, <1>2, <2>2 DEF SessionInv, CloseOwnsSession, Closing, ConnectIsHeld,
                           MemoIsUsable, ActiveIsHeld
<1>3. CASE /\ handlePromise = None
           /\ session' = [session EXCEPT ![c] = "connecting"]
           /\ handlePromise' = c
           /\ handle' = [handle EXCEPT ![c] = c]
  <2>1. activeHandle = None
    BY <1>3 DEF SessionInv, ActiveIsHeld
  <2>2. \A d \in Calls : at[d] \in {"connecting", "asking", "disconnecting"} =>
          handle[d] \in Openers /\ handle[d] # c
    BY <1>1 DEF TypeOK, SessionInv, PromisesAreStarted
  <2>3. PromisesAreStarted'
    BY <1>1, <1>3, <2>2 DEF TypeOK, SessionInv, PromisesAreStarted
  <2>4. CloseOwnsSession'
    <3>1. \A k \in Closes : Closing(k) => handle[k] \in Openers /\ handle[k] # c
      BY <2>2 DEF Closing, TypeOK, Places, Settled
    <3> QED
      BY <1>1, <1>3, <3>1 DEF TypeOK, SessionInv, CloseOwnsSession, Closing
  <2>5. ConnectIsHeld' /\ MemoIsUsable' /\ ActiveIsHeld'
    BY <1>3, <2>1 DEF TypeOK, SessionInv, ConnectIsHeld, MemoIsUsable, ActiveIsHeld
  <2> QED
    BY <2>3, <2>4, <2>5 DEF SessionInv
<1> QED
  BY <1>2, <1>3 DEF GetHandle, Memoized

LEMMA NextSessions ==
  ASSUME SerialCloses
  PROVE  TypeOK /\ SessionInv /\ [Next]_vars => SessionInv'
PROOF
<1> SUFFICES ASSUME TypeOK, SessionInv, [Next]_vars PROVE SessionInv'
  OBVIOUS
<1> USE CallsSplit
<1>1. ASSUME NEW s \in Openers, ConnectSettles(s)
      PROVE  SessionInv'
  <2>1. handlePromise = s
    BY <1>1 DEF ConnectSettles, SessionInv, ConnectIsHeld
  <2> QED
    BY <1>1, <2>1 DEF ConnectSettles, TypeOK, SessionInv, PromisesAreStarted,
                      CloseOwnsSession, Closing, ConnectIsHeld, MemoIsUsable,
                      ActiveIsHeld
<1>2. ASSUME NEW s \in Openers, ConnectFails(s)
      PROVE  SessionInv'
  <2>1. handlePromise = s /\ handlePromise' = None /\ activeHandle' = None
    BY <1>2 DEF ConnectFails, MemoAfterFailure, SessionInv, ConnectIsHeld
  <2>2. \A c \in Calls : at[c] \in {"asking", "disconnecting"} => handle[c] # s
    BY <1>2 DEF ConnectFails, SessionInv, PromisesAreStarted
  <2>3. PromisesAreStarted'
    BY <1>2, <2>2 DEF ConnectFails, TypeOK, SessionInv, PromisesAreStarted
  <2>4. CloseOwnsSession'
    <3>1. ASSUME NEW k \in Closes, Closing(k), handle[k] = handlePromise
          PROVE  at[k] = "connecting"
      BY <2>1, <2>2, <3>1 DEF Closing, Settled, TypeOK, Places, SessionInv,
                              PromisesAreStarted, CloseOwnsSession
    <3> QED
      BY <1>2, <2>1, <3>1 DEF ConnectFails, TypeOK, SessionInv, CloseOwnsSession,
                              Closing
  <2>5. ConnectIsHeld' /\ MemoIsUsable' /\ ActiveIsHeld'
    BY <1>2, <2>1 DEF ConnectFails, TypeOK, SessionInv, ConnectIsHeld,
                      MemoIsUsable, ActiveIsHeld
  <2> QED
    BY <2>3, <2>4, <2>5 DEF SessionInv
<1>3. ASSUME NEW q \in Queries, QueryPolicy(q)
      PROVE  SessionInv'
  <2>1. CASE GetHandle(q)
    BY <1>3, <2>1, GetHandleKeepsSessions DEF QueryPolicy
  <2>2. CASE Goto(q, "threw") /\ UNCHANGED <<session, handlePromise, handle>>
    BY <1>3, <2>2 DEF QueryPolicy, Goto, TypeOK, SessionInv, PromisesAreStarted,
         CloseOwnsSession, Closing, ConnectIsHeld, MemoIsUsable, ActiveIsHeld
  <2> QED
    BY <1>3, <2>1, <2>2 DEF QueryPolicy
<1>4. ASSUME NEW r \in Registers, Register(r)
      PROVE  SessionInv'
  BY <1>4, GetHandleKeepsSessions DEF Register
<1>5. ASSUME NEW c \in Queries \cup Registers,
             Asks(c) \/ Answered(c) \/ RegisterMissing(c)
      PROVE  SessionInv'
  BY <1>5 DEF Asks, Answered, RegisterMissing, HandleReady, Goto, client, Settled, TypeOK, SessionInv,
       PromisesAreStarted, CloseOwnsSession, Closing, ConnectIsHeld, MemoIsUsable,
       ActiveIsHeld
<1>6. ASSUME NEW e \in Sends, SendEvent(e)
      PROVE  SessionInv'
  <2>1. CASE GetHandle(e)
    BY <1>6, <2>1, GetHandleKeepsSessions DEF SendEvent
  <2>2. CASE activeHandle # None /\ Goto(e, "done") /\ UNCHANGED <<session, handlePromise, handle>>
    <3>1. at[e] = "idle" /\ UNCHANGED activeHandle
      BY <1>6 DEF SendEvent
    <3> QED
      BY <2>2, <3>1 DEF Goto, TypeOK, SessionInv, PromisesAreStarted,
         CloseOwnsSession, Closing, ConnectIsHeld, MemoIsUsable, ActiveIsHeld
  <2> QED
    BY <1>6, <2>1, <2>2 DEF SendEvent
<1>7. ASSUME NEW e \in Sends, SendDeferred(e)
      PROVE  SessionInv'
  <2>1. /\ Goto(e, "done")
        /\ UNCHANGED <<session, handlePromise, activeHandle, handle>>
        /\ at[e] = "connecting"
    BY <1>7 DEF SendDeferred, HandleReady, HandleFailed
  <2> QED
    BY <2>1 DEF Goto, TypeOK, SessionInv, PromisesAreStarted, CloseOwnsSession,
                Closing, ConnectIsHeld, MemoIsUsable, ActiveIsHeld
<1>8. ASSUME NEW k \in Closes, Close(k)
      PROVE  SessionInv'
  <2>1. /\ at[k] = "idle"
        /\ \A j \in Closes : ~Closing(j)
        /\ UNCHANGED <<session, handlePromise, activeHandle>>
    BY <1>8 DEF Close
  <2>2. CASE /\ handlePromise # None
             /\ at' = [at EXCEPT ![k] = "connecting"]
             /\ handle' = [handle EXCEPT ![k] = handlePromise]
    <3>1. session[handlePromise] # "unused"
      BY <2>2 DEF SessionInv, MemoIsUsable
    <3>2. PromisesAreStarted'
      BY <2>1, <2>2, <3>1 DEF TypeOK, SessionInv, PromisesAreStarted
    <3>3. CloseOwnsSession'
      BY <2>1, <2>2 DEF TypeOK, SessionInv, CloseOwnsSession, Closing
    <3>4. ConnectIsHeld' /\ MemoIsUsable' /\ ActiveIsHeld'
      BY <2>1, <2>2 DEF TypeOK, SessionInv, ConnectIsHeld, MemoIsUsable, ActiveIsHeld
    <3> QED
      BY <3>2, <3>3, <3>4 DEF SessionInv
  <2>3. CASE /\ \E place \in Settled : at' = [at EXCEPT ![k] = place]
             /\ UNCHANGED handle
    BY <2>1, <2>3 DEF TypeOK, SessionInv, PromisesAreStarted, CloseOwnsSession,
         Closing, Settled, ConnectIsHeld, MemoIsUsable, ActiveIsHeld
  <2> QED
    BY <1>8, <2>2, <2>3 DEF Close, MustDisconnect, ThrowStash, Goto, Settled
<1>9. ASSUME NEW k \in Closes, Disconnect(k)
      PROVE  SessionInv'
  <2>1. /\ at[k] = "connecting"
        /\ UNCHANGED <<session, handlePromise, activeHandle, handle>>
        /\ \/ at' = [at EXCEPT ![k] = "disconnecting"]
              /\ session[handle[k]] \in {"open", "shut"}
           \/ at' = [at EXCEPT ![k] = "threw"]
    BY <1>9 DEF Disconnect, HandleReady, HandleFailed, client, Goto
  <2> QED
    BY <2>1 DEF TypeOK, SessionInv, PromisesAreStarted, CloseOwnsSession, Closing,
                Settled, ConnectIsHeld, MemoIsUsable, ActiveIsHeld
<1>10. ASSUME NEW k \in Closes, SessionShuts(k)
       PROVE  SessionInv'
  <2>1. handle[k] = handlePromise
    BY <1>10 DEF SessionShuts, SessionInv, CloseOwnsSession, Closing, Settled
  <2> QED
    BY <1>10, <2>1 DEF SessionShuts, client, TypeOK, SessionInv, PromisesAreStarted,
         CloseOwnsSession, Closing, ConnectIsHeld, MemoIsUsable, ActiveIsHeld
<1>11. ASSUME NEW k \in Closes, Disconnected(k)
       PROVE  SessionInv'
  <2>1. handle[k] = handlePromise /\ \A j \in Closes : Closing(j) => j = k
    BY <1>11 DEF Disconnected, SessionInv, CloseOwnsSession, Closing, Settled
  <2>2. /\ \E place \in Settled : at' = [at EXCEPT ![k] = place]
        /\ UNCHANGED <<session, handle>>
        /\ handlePromise' = None /\ activeHandle' = None
    BY <1>11 DEF Disconnected, ActiveAfterDisconnect, ThrowStash, Goto, Settled
  <2>3. \A s \in Openers : session[s] # "connecting"
    BY <1>11, <2>1 DEF Disconnected, SessionInv, PromisesAreStarted, ConnectIsHeld
  <2> QED
    BY <2>1, <2>2, <2>3 DEF TypeOK, SessionInv, PromisesAreStarted, CloseOwnsSession,
         Closing, Settled, ConnectIsHeld, MemoIsUsable, ActiveIsHeld
<1>12. CASE UNCHANGED vars
  BY <1>12 DEF vars, client, SessionInv, PromisesAreStarted, CloseOwnsSession, Closing,
       ConnectIsHeld, MemoIsUsable, ActiveIsHeld
<1> QED
  BY <1>1, <1>2, <1>3, <1>4, <1>5, <1>6, <1>7, <1>8, <1>9, <1>10, <1>11, <1>12 DEF Next

LEMMA SessionsHold == ASSUME SerialCloses PROVE Spec => [](TypeOK /\ SessionInv)
PROOF
  BY InitTypes, NextTypes, InitSessions, NextSessions, PTL DEF Spec

\* A close's place in thrown is written when it settles, and only then.
LEMMA InitNothingThrown == Init => NothingThrownYet
PROOF
  BY CallsSplit DEF Init, NothingThrownYet

LEMMA NextNothingThrown == TypeOK /\ NothingThrownYet /\ [Next]_vars => NothingThrownYet'
PROOF
<1> SUFFICES ASSUME TypeOK, NothingThrownYet, [Next]_vars PROVE NothingThrownYet'
  OBVIOUS
<1> USE CallsSplit DEF Goto, Settled, TypeOK, NothingThrownYet
<1>1. ASSUME NEW c \in Openers, NEW place, Goto(c, place),
             \A k \in Closes : thrown'[k] = thrown[k]
      PROVE  NothingThrownYet'
  BY <1>1
<1>2. ASSUME NEW s \in Openers, ConnectSettles(s) \/ ConnectFails(s)
      PROVE  NothingThrownYet'
  BY <1>2 DEF ConnectSettles, ConnectFails
<1>3. ASSUME NEW c \in Queries \cup Registers,
             QueryPolicy(c) \/ Register(c) \/ RegisterMissing(c) \/ Asks(c) \/ Answered(c)
      PROVE  NothingThrownYet'
  BY <1>1, <1>3 DEF QueryPolicy, Register, RegisterMissing, Asks, Answered, GetHandle
<1>4. ASSUME NEW e \in Sends, SendEvent(e) \/ SendDeferred(e)
      PROVE  NothingThrownYet'
  BY <1>1, <1>4 DEF SendEvent, SendDeferred, GetHandle
<1>5. ASSUME NEW k \in Closes, Close(k) \/ Disconnect(k) \/ Disconnected(k) \/ SessionShuts(k)
      PROVE  NothingThrownYet'
  BY <1>5 DEF Close, Disconnect, Disconnected, SessionShuts, ThrowStash, HandleReady, HandleFailed
<1>6. CASE UNCHANGED vars
  BY <1>6 DEF vars
<1> QED
  BY <1>2, <1>3, <1>4, <1>5, <1>6 DEF Next

LEMMA NothingThrownHolds == Spec => []NothingThrownYet
PROOF
  BY InitNothingThrown, NextNothingThrown, TypeCorrect, PTL DEF Spec

\* A close that settled is settled for good, with what it threw.
LEMMA SettledStays ==
  ASSUME TypeOK, [Next]_vars, NEW k \in Closes, at[k] \in Settled
  PROVE  at'[k] = at[k] /\ handle'[k] = handle[k] /\ thrown'[k] = thrown[k]
PROOF
<1> DEFINE Stays == at'[k] = at[k] /\ handle'[k] = handle[k] /\ thrown'[k] = thrown[k]
<1> SUFFICES Stays
  OBVIOUS
<1> USE CallsSplit DEF Settled, Goto, TypeOK
<1>1. ASSUME NEW t \in Openers, ConnectSettles(t) \/ ConnectFails(t)
      PROVE  Stays
  BY <1>1 DEF ConnectSettles, ConnectFails
<1>2. ASSUME NEW c \in Queries \cup Registers,
             QueryPolicy(c) \/ Register(c) \/ RegisterMissing(c) \/ Asks(c) \/ Answered(c)
      PROVE  Stays
  BY <1>2 DEF QueryPolicy, Register, RegisterMissing, Asks, Answered, GetHandle
<1>3. ASSUME NEW e \in Sends, SendEvent(e) \/ SendDeferred(e)
      PROVE  Stays
  BY <1>3 DEF SendEvent, SendDeferred, GetHandle
<1>4. ASSUME NEW j \in Closes, Close(j) \/ Disconnect(j) \/ Disconnected(j) \/ SessionShuts(j)
      PROVE  Stays
  BY <1>4 DEF Close, Disconnect, Disconnected, SessionShuts, ThrowStash, HandleReady, HandleFailed
<1>5. CASE UNCHANGED vars
  BY <1>5 DEF vars
<1> QED
  BY <1>1, <1>2, <1>3, <1>4, <1>5 DEF Next

\* The memo lets go of a live session only in the finally of the close that owns
\* it, and then that close ends in the disconnect's own error.
LEMMA LettingGoIsTold ==
  ASSUME SerialCloses, TypeOK, SessionInv, NothingThrownYet, [Next]_vars,
         NEW s \in Openers, session'[s] \in {"connecting", "open"}, handlePromise' # s
  PROVE  /\ session[s] \in {"connecting", "open"}
         /\ handlePromise = s => \E k \in Closes : TeardownFailed(k, s)'
PROOF
<1> DEFINE Goal == /\ session[s] \in {"connecting", "open"}
                   /\ handlePromise = s => \E k \in Closes : TeardownFailed(k, s)'
<1> SUFFICES Goal
  OBVIOUS
<1> USE CallsSplit
<1>1. ASSUME UNCHANGED <<session, handlePromise>>
      PROVE  Goal
  BY <1>1
<1>2. ASSUME NEW t \in Openers, ConnectSettles(t)
      PROVE  Goal
  BY <1>2 DEF ConnectSettles, TypeOK
<1>3. ASSUME NEW t \in Openers, ConnectFails(t)
      PROVE  Goal
  <2>1. handlePromise = t
    BY <1>3 DEF ConnectFails, SessionInv, ConnectIsHeld
  <2> QED
    BY <1>3, <2>1 DEF ConnectFails, TypeOK
<1>4. ASSUME NEW c \in Openers, GetHandle(c)
      PROVE  Goal
  BY <1>4 DEF GetHandle, Memoized, TypeOK
<1>5. ASSUME NEW c \in Queries \cup Registers,
             QueryPolicy(c) \/ Register(c) \/ RegisterMissing(c) \/ Asks(c) \/ Answered(c)
      PROVE  Goal
  BY <1>1, <1>4, <1>5 DEF QueryPolicy, Register, RegisterMissing, Asks, Answered, client
<1>6. ASSUME NEW e \in Sends, SendEvent(e) \/ SendDeferred(e)
      PROVE  Goal
  BY <1>1, <1>4, <1>6 DEF SendEvent, SendDeferred
<1>7. ASSUME NEW k \in Closes, Close(k) \/ Disconnect(k)
      PROVE  Goal
  BY <1>1, <1>7 DEF Close, Disconnect, client
<1>8. ASSUME NEW k \in Closes, SessionShuts(k)
      PROVE  Goal
  BY <1>8 DEF SessionShuts, client, TypeOK
<1>9. ASSUME NEW k \in Closes, Disconnected(k)
      PROVE  Goal
  <2>1. handle[k] = handlePromise
    BY <1>9 DEF Disconnected, SessionInv, CloseOwnsSession, Closing, Settled
  <2>2. thrown[k] = None
    BY <1>9 DEF Disconnected, NothingThrownYet, Settled
  <2>3. handlePromise = s => TeardownFailed(k, s)'
    BY <1>9, <2>1, <2>2 DEF Disconnected, Goto, TeardownFailed, TypeOK
  <2> QED
    BY <1>9, <2>3 DEF Disconnected
<1>10. CASE UNCHANGED vars
  BY <1>1, <1>10 DEF vars, client
<1> QED
  BY <1>2, <1>3, <1>5, <1>6, <1>7, <1>8, <1>9, <1>10 DEF Next

\* While the application does not overlap two closes, no session leaks unnoticed:
\* what is live or being opened is what the client holds, or its close has thrown
\* the error of the disconnect that left it up, for any number of calls.
THEOREM NoSessionLeaks == ASSUME SerialCloses PROVE Spec => []LiveSessionIsHeld
PROOF
<1>1. Init => LiveSessionIsHeld
  BY DEF Init, LiveSessionIsHeld
<1>2. ASSUME TypeOK, SessionInv, NothingThrownYet, LiveSessionIsHeld, [Next]_vars
      PROVE  LiveSessionIsHeld'
  <2> SUFFICES ASSUME NEW s \in Openers, session'[s] \in {"connecting", "open"},
                      handlePromise' # s
               PROVE  \E k \in Closes : TeardownFailed(k, s)'
    BY DEF LiveSessionIsHeld
  <2>1. CASE handlePromise = s
    BY <1>2, <2>1, LettingGoIsTold
  <2>2. CASE handlePromise # s
    <3>1. PICK k \in Closes : TeardownFailed(k, s)
      BY <1>2, <2>2, LettingGoIsTold DEF LiveSessionIsHeld
    <3> QED
      BY <1>2, <3>1, SettledStays DEF TeardownFailed, Settled
  <2> QED
    BY <2>1, <2>2
<1> QED
  BY <1>1, <1>2, SessionsHold, NothingThrownHolds, PTL DEF Spec

\* A failed connect is never memoized, nor a session that was shut.
THEOREM MemoStaysUsable == ASSUME SerialCloses PROVE Spec => []MemoIsUsable
PROOF
  BY SessionsHold, PTL DEF SessionInv

\* sendEvent's fast path only writes to the session the client holds.
THEOREM FastPathIsHeld == ASSUME SerialCloses PROVE Spec => []ActiveIsHeld
PROOF
  BY SessionsHold, PTL DEF SessionInv

-----------------------------------------------------------------------------
(* Errors.  This part needs no assumption about the closes.                 *)

\* An error passes from the stash to a close or a caller, and never back.
ErrorInv ==
  /\ ErrorsAreFromSends
  /\ ErrorInOneHand
  /\ ErrorThrownOnce

LEMMA InitErrors == Init => ErrorInv
PROOF
  BY CallsSplit DEF Init, ErrorInv, ErrorsAreFromSends, ErrorInOneHand, ErrorThrownOnce,
                    Closing

\* A step that hands no error on and ends no send is harmless.
LEMMA NoErrorMoves ==
  ASSUME TypeOK, ErrorInv, UNCHANGED <<pendingSendError, stashed, thrown>>,
         \A e \in Sends : at[e] = "done" => at'[e] = "done",
         \A k \in Closes : Closing(k)' => Closing(k)
  PROVE  ErrorInv'
PROOF
<1> USE CallsSplit
<1>1. ErrorsAreFromSends'
  BY DEF TypeOK, Errors, ErrorInv, ErrorsAreFromSends
<1>2. ErrorInOneHand' /\ ErrorThrownOnce'
  BY DEF ErrorInv, ErrorInOneHand, ErrorThrownOnce, Closing
<1> QED
  BY <1>1, <1>2 DEF ErrorInv

\* A send that ends may stash its own error, which nobody has yet.
LEMMA StashKeepsErrors ==
  ASSUME TypeOK, ErrorInv, NEW e \in Sends, at[e] # "done", Goto(e, "done"),
         UNCHANGED <<stashed, thrown>>,
         pendingSendError' = pendingSendError \/
           \E kind \in {"connect", "send"} : pendingSendError' = [kind |-> kind, of |-> e]
  PROVE  ErrorInv'
PROOF
<1> USE CallsSplit
<1>1. /\ at' = [at EXCEPT ![e] = "done"]
      /\ \A k \in Closes : Closing(k)' <=> Closing(k)
  BY DEF Goto, Closing, TypeOK
<1>2. CASE pendingSendError' = pendingSendError
  BY <1>1, <1>2, NoErrorMoves DEF TypeOK
<1>3. ASSUME NEW kind \in {"connect", "send"}, pendingSendError' = [kind |-> kind, of |-> e]
      PROVE  ErrorInv'
  <2>1. pendingSendError'.of = e
    BY <1>3
  <2>2. /\ \A k \in Closes : stashed[k] # None => stashed[k].of # e
        /\ \A c \in Calls : thrown[c] # None => thrown[c].of # e
    BY DEF ErrorInv, ErrorsAreFromSends
  <2>3. ErrorsAreFromSends'
    BY <1>1, <2>1 DEF TypeOK, Errors, ErrorInv, ErrorsAreFromSends
  <2>4. ErrorInOneHand'
    BY <1>1, <2>1, <2>2 DEF ErrorInv, ErrorInOneHand, Closing
  <2>5. ErrorThrownOnce'
    BY <1>1, <2>1, <2>2 DEF ErrorInv, ErrorThrownOnce, Closing
  <2> QED
    BY <2>3, <2>4, <2>5 DEF ErrorInv
<1> QED
  BY <1>2, <1>3

LEMMA NextErrors == TypeOK /\ ErrorInv /\ [Next]_vars => ErrorInv'
PROOF
<1> SUFFICES ASSUME TypeOK, ErrorInv, [Next]_vars PROVE ErrorInv'
  OBVIOUS
<1> USE CallsSplit
<1>1. ASSUME NEW s \in Openers, ConnectSettles(s) \/ ConnectFails(s)
      PROVE  ErrorInv'
  BY <1>1, NoErrorMoves DEF ConnectSettles, ConnectFails, Closing
<1>2. ASSUME NEW q \in Queries, QueryPolicy(q)
      PROVE  ErrorInv'
  <2>1. /\ \A e \in Sends : at'[e] = at[e]
        /\ \A k \in Closes : at'[k] = at[k]
        /\ UNCHANGED stashed
    BY <1>2, DisjointAssumption DEF QueryPolicy, GetHandle, Goto, TypeOK
  <2>2. CASE UNCHANGED <<pendingSendError, thrown>>
    BY <2>1, <2>2, NoErrorMoves DEF Closing
  <2>3. CASE /\ pendingSendError # None
             /\ thrown' = [thrown EXCEPT ![q] = pendingSendError]
             /\ pendingSendError' = None
    <3>1. ErrorsAreFromSends'
      BY <2>1, <2>3 DEF TypeOK, Errors, ErrorInv, ErrorsAreFromSends
    <3>2. ErrorInOneHand'
      BY <2>1, <2>3 DEF ErrorInv, ErrorInOneHand, Closing
    <3>3. ErrorThrownOnce'
      BY <2>1, <2>3 DEF TypeOK, ErrorInv, ErrorInOneHand, ErrorThrownOnce, Closing
    <3> QED
      BY <3>1, <3>2, <3>3 DEF ErrorInv
  <2> QED
    BY <1>2, <2>2, <2>3 DEF QueryPolicy, StashAfterThrow
<1>3. ASSUME NEW r \in Registers, Register(r)
      PROVE  ErrorInv'
  <2>1. /\ \A e \in Sends : at'[e] = at[e]
        /\ \A k \in Closes : at'[k] = at[k]
    BY <1>3, DisjointAssumption DEF Register, GetHandle, Goto, TypeOK
  <2> QED
    BY <1>3, <2>1, NoErrorMoves DEF Register, Closing
<1>4. ASSUME NEW c \in Queries \cup Registers,
             Asks(c) \/ Answered(c) \/ RegisterMissing(c)
      PROVE  ErrorInv'
  <2>1. /\ \A e \in Sends : at'[e] = at[e]
        /\ \A k \in Closes : at'[k] = at[k]
    BY <1>4, DisjointAssumption DEF Asks, Answered, RegisterMissing, Goto, TypeOK
  <2> QED
    BY <1>4, <2>1, NoErrorMoves DEF Asks, Answered, RegisterMissing, client, Closing
<1>5. ASSUME NEW e \in Sends, SendEvent(e)
      PROVE  ErrorInv'
  <2>1. CASE GetHandle(e) /\ UNCHANGED pendingSendError
    <3>1. /\ \A d \in Sends : at[d] = "done" => at'[d] = "done"
          /\ \A k \in Closes : at'[k] = at[k]
      BY <1>5, <2>1 DEF SendEvent, GetHandle, Goto, TypeOK
    <3> QED
      BY <1>5, <2>1, <3>1, NoErrorMoves DEF SendEvent, Closing
  <2>2. CASE Enqueue(e, activeHandle) /\ Goto(e, "done")
    BY <1>5, <2>2, StashKeepsErrors DEF SendEvent, Enqueue
  <2> QED
    BY <1>5, <2>1, <2>2 DEF SendEvent
<1>6. ASSUME NEW e \in Sends, SendDeferred(e)
      PROVE  ErrorInv'
  BY <1>6, StashKeepsErrors DEF SendDeferred, Enqueue, HandleReady, HandleFailed
<1>7. ASSUME NEW k \in Closes, Close(k)
      PROVE  ErrorInv'
  <2>1. /\ at[k] = "idle"
        /\ stashed' = [stashed EXCEPT ![k] = pendingSendError]
        /\ pendingSendError' = None
        /\ \A e \in Sends : at'[e] = at[e]
        /\ \A j \in Closes \ {k} : at'[j] = at[j]
    BY <1>7 DEF Close, ThrowStash, Goto, TypeOK
  <2>2. CASE UNCHANGED thrown
    <3>1. ErrorsAreFromSends'
      BY <2>1, <2>2 DEF TypeOK, Errors, ErrorInv, ErrorsAreFromSends
    <3>2. ErrorInOneHand'
      BY <2>1 DEF TypeOK, ErrorInv, ErrorInOneHand, Closing
    <3>3. ErrorThrownOnce'
      BY <2>1, <2>2 DEF TypeOK, ErrorInv, ErrorThrownOnce, Closing
    <3> QED
      BY <3>1, <3>2, <3>3 DEF ErrorInv
  <2>3. CASE ThrowStash(k, pendingSendError)
    <3>1. /\ thrown' = [thrown EXCEPT ![k] = pendingSendError]
          /\ at'[k] \in Settled
      BY <2>3 DEF ThrowStash, Goto, Settled, TypeOK
    <3>2. ErrorsAreFromSends'
      BY <2>1, <3>1 DEF TypeOK, Errors, ErrorInv, ErrorsAreFromSends
    <3>3. ErrorInOneHand'
      BY <2>1, <3>1 DEF TypeOK, ErrorInv, ErrorInOneHand, Closing
    <3>4. ErrorThrownOnce'
      BY <2>1, <3>1 DEF TypeOK, ErrorInv, ErrorInOneHand, ErrorThrownOnce, Closing
    <3> QED
      BY <3>2, <3>3, <3>4 DEF ErrorInv
  <2> QED
    BY <1>7, <2>2, <2>3 DEF Close
<1>8. ASSUME NEW k \in Closes, Disconnect(k) \/ SessionShuts(k)
      PROVE  ErrorInv'
  <2>1. /\ \A e \in Sends : at'[e] = at[e]
        /\ \A j \in Closes : Closing(j)' => Closing(j)
    BY <1>8 DEF Disconnect, SessionShuts, HandleReady, HandleFailed, client, Goto,
                Closing, Settled, TypeOK
  <2> QED
    BY <1>8, <2>1, NoErrorMoves DEF Disconnect, SessionShuts, client
<1>9. ASSUME NEW k \in Closes, Disconnected(k)
      PROVE  ErrorInv'
  <2>1. /\ at[k] = "disconnecting" /\ at'[k] \in Settled
        /\ UNCHANGED <<pendingSendError, stashed>>
        /\ \A e \in Sends : at'[e] = at[e]
        /\ \A j \in Closes \ {k} : at'[j] = at[j]
    BY <1>9 DEF Disconnected, ThrowStash, Goto, Settled, TypeOK
  <2>2. CASE UNCHANGED thrown
    <3>1. \A j \in Closes : Closing(j)' => Closing(j)
      BY <2>1 DEF Closing, Settled
    <3> QED
      BY <2>1, <2>2, <3>1, NoErrorMoves
  <2>3. CASE thrown' = [thrown EXCEPT ![k] = stashed[k]]
    <3>1. Closing(k) /\ ~Closing(k)'
      BY <2>1 DEF Closing, Settled
    <3>2. ErrorsAreFromSends'
      BY <2>1, <2>3 DEF TypeOK, Errors, ErrorInv, ErrorsAreFromSends
    <3>3. ErrorInOneHand'
      BY <2>1, <3>1 DEF ErrorInv, ErrorInOneHand, Closing
    <3>4. ErrorThrownOnce'
      BY <2>1, <2>3, <3>1 DEF TypeOK, ErrorInv, ErrorInOneHand, ErrorThrownOnce, Closing
    <3> QED
      BY <3>2, <3>3, <3>4 DEF ErrorInv
  <2> QED
    BY <1>9, <2>2, <2>3 DEF Disconnected, ThrowStash
<1>10. CASE UNCHANGED vars
  BY <1>10, NoErrorMoves DEF vars, client, Closing
<1> QED
  BY <1>1, <1>2, <1>3, <1>4, <1>5, <1>6, <1>7, <1>8, <1>9, <1>10 DEF Next

\* A failed send surfaces in at most one caller, however many queries and
\* closes, overlapping or not, look at the stash.
THEOREM ErrorsThrownOnce == Spec => []ErrorThrownOnce
PROOF
<1>1. Spec => [](TypeOK /\ ErrorInv)
  BY InitTypes, NextTypes, InitErrors, NextErrors, PTL DEF Spec
<1> QED
  BY <1>1, PTL DEF ErrorInv

-----------------------------------------------------------------------------
(* Teardown.                                                                *)

\* What a step does to the calls: one moves at a time, a settled one stays, and
\* only a call that is just made takes a promise or opens a session.
Opens(s) == session[s] \notin {"connecting", "open"} /\ session'[s] \in {"connecting", "open"}

MovedBy(c) ==
  /\ \A d \in Calls \ {c} : at'[d] = at[d] /\ handle'[d] = handle[d]
  /\ at[c] \notin Settled /\ at'[c] # "idle"
  /\ at[c] # "idle" => handle'[c] = handle[c]
  /\ c \in Openers /\ at[c] = "idle" /\ at'[c] = "connecting" => handle'[c] # None
  /\ c \in Closes /\ at[c] = "idle" /\ at'[c] \notin Settled => handle'[c] = handlePromise
  /\ \A s \in Openers : Opens(s) => s = c /\ at[c] = "idle" /\ at'[c] = "connecting"

LEMMA OneCallMoves ==
  ASSUME TypeOK, [Next]_vars
  PROVE  \/ UNCHANGED <<at, handle>> /\ \A s \in Openers : ~Opens(s)
         \/ \E c \in Calls : MovedBy(c)
PROOF
<1> DEFINE Goal == \/ UNCHANGED <<at, handle>> /\ \A s \in Openers : ~Opens(s)
                   \/ \E c \in Calls : MovedBy(c)
<1> SUFFICES Goal
  OBVIOUS
<1> USE CallsSplit DEF Opens, Goto
<1>1. ASSUME NEW s \in Openers, ConnectSettles(s) \/ ConnectFails(s)
      PROVE  Goal
  BY <1>1 DEF ConnectSettles, ConnectFails, TypeOK
<1>2. ASSUME NEW c \in Openers, at[c] = "idle", GetHandle(c)
      PROVE  MovedBy(c)
  BY <1>2 DEF GetHandle, Memoized, MovedBy, Settled, TypeOK
<1>3. ASSUME NEW q \in Queries, QueryPolicy(q)
      PROVE  Goal
  <2>1. CASE GetHandle(q)
    BY <1>2, <1>3, <2>1 DEF QueryPolicy
  <2>2. CASE at' = [at EXCEPT ![q] = "threw"] /\ UNCHANGED <<session, handle>>
    <3>1. MovedBy(q)
      BY <1>3, <2>2 DEF QueryPolicy, MovedBy, Settled, TypeOK
    <3> QED
      BY <3>1
  <2> QED
    BY <1>3, <2>1, <2>2 DEF QueryPolicy
<1>4. ASSUME NEW r \in Registers, Register(r) \/ RegisterMissing(r)
      PROVE  Goal
  <2>1. CASE Register(r)
    BY <1>2, <2>1 DEF Register
  <2>2. CASE RegisterMissing(r)
    <3>1. MovedBy(r)
      BY <2>2 DEF RegisterMissing, MovedBy, Settled, TypeOK
    <3> QED
      BY <3>1
  <2> QED
    BY <1>4, <2>1, <2>2
<1>5. ASSUME NEW c \in Queries \cup Registers, Asks(c) \/ Answered(c)
      PROVE  Goal
  <2>1. MovedBy(c)
    BY <1>5 DEF Asks, Answered, HandleReady, HandleFailed, MovedBy, Settled, TypeOK
  <2> QED
    BY <2>1
<1>6. ASSUME NEW e \in Sends, SendEvent(e)
      PROVE  Goal
  <2>1. CASE GetHandle(e)
    BY <1>2, <1>6, <2>1 DEF SendEvent
  <2>2. CASE at' = [at EXCEPT ![e] = "done"] /\ UNCHANGED <<session, handle>>
    <3>1. MovedBy(e)
      BY <1>6, <2>2 DEF SendEvent, MovedBy, Settled, TypeOK
    <3> QED
      BY <3>1
  <2> QED
    BY <1>6, <2>1, <2>2 DEF SendEvent
<1>7. ASSUME NEW e \in Sends, SendDeferred(e)
      PROVE  Goal
  <2>1. MovedBy(e)
    BY <1>7 DEF SendDeferred, HandleReady, HandleFailed, MovedBy, Settled, TypeOK
  <2> QED
    BY <2>1
<1>8. ASSUME NEW k \in Closes, Close(k)
      PROVE  Goal
  <2>1. MovedBy(k)
    BY <1>8 DEF Close, ThrowStash, MovedBy, Settled, TypeOK
  <2> QED
    BY <2>1
<1>9. ASSUME NEW k \in Closes, Disconnect(k) \/ Disconnected(k)
      PROVE  Goal
  <2>1. MovedBy(k)
    BY <1>9 DEF Disconnect, Disconnected, ThrowStash, HandleReady, HandleFailed, MovedBy,
                Settled, TypeOK
  <2> QED
    BY <2>1
<1>10. ASSUME NEW k \in Closes, SessionShuts(k)
       PROVE  Goal
  BY <1>10 DEF SessionShuts, TypeOK
<1>11. CASE UNCHANGED vars
  BY <1>11 DEF vars
<1> QED
  BY <1>1, <1>3, <1>4, <1>5, <1>6, <1>7, <1>8, <1>9, <1>10, <1>11 DEF Next

LEMMA CloseStepTearsDown ==
  ASSUME TypeOK, NothingThrownYet, [Next]_vars, NEW k \in Closes,
         at[k] \notin Settled, at'[k] \in Settled
  PROVE  IF at[k] = "idle" THEN handlePromise = None
         ELSE session'[handle[k]] \in {"failed", "shut"} \/ TeardownFailed(k, handle[k])'
PROOF
<1> USE CallsSplit
<1>1. ASSUME NEW c \in Openers, Goto(c, "connecting") \/ Goto(c, "asking") \/
             Goto(c, "done") \/ Goto(c, "threw")
      PROVE  FALSE
  BY <1>1 DEF Goto, TypeOK
<1>2. CASE Close(k)
  BY <1>2 DEF Close, MustDisconnect, Goto, Settled, TypeOK
<1>3. CASE Disconnect(k)
  BY <1>3 DEF Disconnect, HandleReady, HandleFailed, Goto, Settled, TypeOK
<1>4. CASE Disconnected(k)
  BY <1>4 DEF Disconnected, Goto, NothingThrownYet, TeardownFailed, TypeOK
<1>5. ASSUME NEW j \in Closes, j # k, Close(j) \/ Disconnect(j) \/ Disconnected(j)
      PROVE  FALSE
  BY <1>5 DEF Close, Disconnect, Disconnected, ThrowStash, Goto, TypeOK
<1>6. ASSUME UNCHANGED at
      PROVE  FALSE
  BY <1>6
<1>7. ASSUME NEW s \in Openers, ConnectSettles(s) \/ ConnectFails(s)
      PROVE  FALSE
  BY <1>6, <1>7 DEF ConnectSettles, ConnectFails
<1>8. ASSUME NEW c \in Queries \cup Registers,
             QueryPolicy(c) \/ Register(c) \/ RegisterMissing(c) \/ Asks(c) \/ Answered(c)
      PROVE  FALSE
  BY <1>1, <1>8 DEF QueryPolicy, Register, RegisterMissing, Asks, Answered, GetHandle,
                       Settled
<1>9. ASSUME NEW e \in Sends, SendEvent(e) \/ SendDeferred(e)
      PROVE  FALSE
  BY <1>1, <1>9 DEF SendEvent, SendDeferred, GetHandle
<1>10. ASSUME NEW j \in Closes, SessionShuts(j)
       PROVE  FALSE
  BY <1>6, <1>10 DEF SessionShuts
<1>11. ~UNCHANGED vars
  BY <1>6 DEF vars
<1> QED
  BY <1>2, <1>3, <1>4, <1>5, <1>7, <1>8, <1>9, <1>10, <1>11 DEF Next

\* A close settles only once the session it found is down, or in the error of the
\* disconnect that did not take it down: a stashed error never short-circuits the
\* teardown, nor hides that it failed, for closes that overlap too.
THEOREM ClosesTearDown == Spec => CloseTearsDown
PROOF
<1>1. TypeOK /\ NothingThrownYet /\ [Next]_vars =>
        [\A k \in Closes :
           at[k] \notin Settled /\ at'[k] \in Settled =>
             IF at[k] = "idle" THEN handlePromise = None
             ELSE session'[handle[k]] \in {"failed", "shut"} \/ TeardownFailed(k, handle[k])']_vars
  BY CloseStepTearsDown
<1> QED
  BY <1>1, TypeCorrect, NothingThrownHolds, PTL DEF Spec, CloseTearsDown

-----------------------------------------------------------------------------
(* Nothing hangs.  CallsSettle needs fairness; these are the two facts it     *)
(* rests on, for closes that overlap too: a call that waits waits for a step  *)
(* that fairness speaks of, and no step takes a call or a session back.       *)

\* The step a call waits for: its connect settling, the rest of the call on the
\* settled promise, the binding's answer, or the teardown.
HasNext(c) ==
  \/ at[c] = "connecting" /\ session[handle[c]] = "connecting"
  \/ HandleReady(c) \/ HandleFailed(c)
  \/ c \in Queries \cup Registers /\ at[c] = "asking"
  \/ c \in Closes /\ at[c] = "disconnecting" /\ session[handle[c]] \in {"open", "shut"}

NoCallIsStuck == \A c \in Calls : at[c] \notin {"idle"} \cup Settled => HasNext(c)

Advances(from, to) ==
  \/ from = "idle"
  \/ from = "connecting" /\ to \in {"asking", "disconnecting"} \cup Settled
  \/ from \in {"asking", "disconnecting"} /\ to \in Settled

SessionAdvances(from, to) ==
  \/ from = "unused" /\ to = "connecting"
  \/ from = "connecting" /\ to \in {"open", "failed"}
  \/ from = "open" /\ to = "shut"

CallsAdvance ==
  [][/\ \A c \in Calls : at'[c] # at[c] => Advances(at[c], at'[c])
     /\ \A s \in Openers : session'[s] # session[s] => SessionAdvances(session[s], session'[s])]_vars

\* A call waits on a promise only after getHandle or close took one, and the
\* memo never names a promise that was not started.
StartedInv ==
  /\ PromisesAreStarted
  /\ handlePromise # None => session[handlePromise] # "unused"
  /\ \A c \in Calls : at[c] = "asking" => c \in Queries \cup Registers
  /\ \A c \in Calls : at[c] = "disconnecting" => c \in Closes

LEMMA InitStarted == Init => StartedInv
PROOF
  BY CallsSplit DEF Init, StartedInv, PromisesAreStarted

\* getHandle starts a promise or takes one that is started.
LEMMA GetHandleStarts ==
  ASSUME TypeOK, StartedInv, NEW c \in Openers, at[c] = "idle", GetHandle(c)
  PROVE  StartedInv'
PROOF
<1> USE CallsSplit
<1>1. /\ at' = [at EXCEPT ![c] = "connecting"]
      /\ session[c] = "unused"
  BY DEF GetHandle, Goto, StartedInv, PromisesAreStarted
<1>2. CASE /\ handlePromise # None
           /\ handle' = [handle EXCEPT ![c] = handlePromise]
           /\ UNCHANGED <<session, handlePromise>>
  BY <1>1, <1>2 DEF TypeOK, StartedInv, PromisesAreStarted
<1>3. CASE /\ session' = [session EXCEPT ![c] = "connecting"]
           /\ handlePromise' = c
           /\ handle' = [handle EXCEPT ![c] = c]
  <2>1. \A d \in Calls : at[d] \in {"connecting", "asking", "disconnecting"} =>
          handle[d] \in Openers /\ handle[d] # c
    BY <1>1 DEF TypeOK, StartedInv, PromisesAreStarted
  <2>2. PromisesAreStarted'
    BY <1>1, <1>3, <2>1 DEF TypeOK, StartedInv, PromisesAreStarted
  <2> QED
    BY <1>1, <1>3, <2>2 DEF TypeOK, StartedInv
<1> QED
  BY <1>2, <1>3 DEF GetHandle, Memoized

\* A call that ends, or that its kind lets go on with a promise that resolved,
\* keeps the invariant while the sessions stay.
LEMMA MovingKeepsStarted ==
  ASSUME TypeOK, StartedInv, NEW c \in Calls, NEW place \in Places, Goto(c, place),
         UNCHANGED <<session, handle>>, handlePromise' \in {handlePromise, None},
         place \notin {"idle", "connecting"},
         place \in {"asking", "disconnecting"} => HandleReady(c),
         place = "asking" => c \in Queries \cup Registers,
         place = "disconnecting" => c \in Closes
  PROVE  StartedInv'
PROOF
<1> USE CallsSplit
<1>1. at' = [at EXCEPT ![c] = place]
  BY DEF Goto
<1>2. PromisesAreStarted'
  BY <1>1 DEF HandleReady, TypeOK, StartedInv, PromisesAreStarted
<1> QED
  BY <1>1, <1>2 DEF TypeOK, StartedInv

LEMMA NextStarted == TypeOK /\ StartedInv /\ [Next]_vars => StartedInv'
PROOF
<1> SUFFICES ASSUME TypeOK, StartedInv, [Next]_vars PROVE StartedInv'
  OBVIOUS
<1> USE CallsSplit
<1>1. ASSUME NEW s \in Openers, ConnectSettles(s)
      PROVE  StartedInv'
  <2>1. PromisesAreStarted'
    BY <1>1 DEF ConnectSettles, TypeOK, StartedInv, PromisesAreStarted
  <2> QED
    BY <1>1, <2>1 DEF ConnectSettles, TypeOK, StartedInv
<1>2. ASSUME NEW s \in Openers, ConnectFails(s)
      PROVE  StartedInv'
  <2>1. PromisesAreStarted'
    BY <1>2 DEF ConnectFails, TypeOK, StartedInv, PromisesAreStarted
  <2> QED
    BY <1>2, <2>1 DEF ConnectFails, MemoAfterFailure, TypeOK, StartedInv
<1>3. ASSUME NEW q \in Queries, QueryPolicy(q)
      PROVE  StartedInv'
  <2>1. CASE Goto(q, "threw") /\ UNCHANGED <<session, handlePromise, handle>>
    BY <2>1, MovingKeepsStarted DEF Places
  <2> QED
    BY <1>3, <2>1, GetHandleStarts DEF QueryPolicy
<1>4. ASSUME NEW r \in Registers, Register(r)
      PROVE  StartedInv'
  BY <1>4, GetHandleStarts DEF Register
<1>5. ASSUME NEW c \in Queries \cup Registers, Asks(c) \/ Answered(c) \/ RegisterMissing(c)
      PROVE  StartedInv'
  <2>1. UNCHANGED <<session, handle, handlePromise>>
    BY <1>5 DEF Asks, Answered, RegisterMissing, client
  <2>2. \E place \in {"asking"} \cup Settled :
          Goto(c, place) /\ (place = "asking" => HandleReady(c))
    BY <1>5 DEF Asks, Answered, RegisterMissing, Settled
  <2> QED
    BY <2>1, <2>2, MovingKeepsStarted DEF Places, Settled
<1>6. ASSUME NEW e \in Sends, SendEvent(e) \/ SendDeferred(e)
      PROVE  StartedInv'
  <2>1. CASE Goto(e, "done") /\ UNCHANGED <<session, handlePromise, handle>>
    BY <2>1, MovingKeepsStarted DEF Places
  <2> QED
    BY <1>6, <2>1, GetHandleStarts DEF SendEvent, SendDeferred
<1>7. ASSUME NEW k \in Closes, Close(k)
      PROVE  StartedInv'
  <2>1. UNCHANGED <<session, handlePromise>>
    BY <1>7 DEF Close
  <2>2. CASE /\ handlePromise # None
             /\ at' = [at EXCEPT ![k] = "connecting"]
             /\ handle' = [handle EXCEPT ![k] = handlePromise]
    <3>1. PromisesAreStarted'
      BY <2>1, <2>2 DEF TypeOK, StartedInv, PromisesAreStarted
    <3> QED
      BY <2>1, <2>2, <3>1 DEF TypeOK, StartedInv
  <2>3. CASE ThrowStash(k, pendingSendError) /\ UNCHANGED handle
    BY <2>1, <2>3, MovingKeepsStarted DEF ThrowStash, Places
  <2> QED
    BY <1>7, <2>2, <2>3 DEF Close, MustDisconnect, Goto
<1>8. ASSUME NEW k \in Closes, Disconnect(k)
      PROVE  StartedInv'
  BY <1>8, MovingKeepsStarted DEF Disconnect, client, Places
<1>9. ASSUME NEW k \in Closes, SessionShuts(k)
      PROVE  StartedInv'
  <2>1. PromisesAreStarted'
    BY <1>9 DEF SessionShuts, client, TypeOK, StartedInv, PromisesAreStarted
  <2> QED
    BY <1>9, <2>1 DEF SessionShuts, client, TypeOK, StartedInv
<1>10. ASSUME NEW k \in Closes, Disconnected(k)
       PROVE  StartedInv'
  BY <1>10, MovingKeepsStarted DEF Disconnected, ThrowStash, Places
<1>11. CASE UNCHANGED vars
  BY <1>11 DEF vars, client, StartedInv, PromisesAreStarted
<1> QED
  BY <1>1, <1>2, <1>3, <1>4, <1>5, <1>6, <1>7, <1>8, <1>9, <1>10, <1>11 DEF Next

LEMMA StartedHolds == Spec => [](TypeOK /\ StartedInv)
PROOF
  BY InitTypes, NextTypes, InitStarted, NextStarted, PTL DEF Spec

LEMMA StartedNeverStuck == TypeOK /\ StartedInv => NoCallIsStuck
PROOF
<1> SUFFICES ASSUME TypeOK, StartedInv, NEW c \in Calls, at[c] \notin {"idle"} \cup Settled
             PROVE  HasNext(c)
  BY DEF NoCallIsStuck
<1>1. at[c] \in {"connecting", "asking", "disconnecting"}
  BY DEF TypeOK, Places, Settled
<1>2. handle[c] # None => session[handle[c]] \in {"unused", "connecting", "open", "failed", "shut"}
  BY CallsSplit DEF TypeOK
<1> QED
  BY <1>1, <1>2 DEF StartedInv, PromisesAreStarted, HasNext, HandleReady, HandleFailed

\* No call waits for a step that nobody will take: a promise nobody started, or
\* one that another close has already torn down, for closes that overlap too.
THEOREM NothingIsStuck == Spec => []NoCallIsStuck
PROOF
  BY StartedNeverStuck, StartedHolds, PTL

\* A step of the client takes each call and each session forward or leaves it
\* where it is, so that every call is over after three steps of its own.
THEOREM NothingGoesBack == Spec => CallsAdvance
PROOF
<1> DEFINE Forward ==
      /\ \A c \in Calls : at'[c] # at[c] => Advances(at[c], at'[c])
      /\ \A s \in Openers : session'[s] # session[s] => SessionAdvances(session[s], session'[s])
<1>1. ASSUME TypeOK, StartedInv, Next
      PROVE  Forward
  <2> USE <1>1, CallsSplit
  <2>1. ASSUME NEW c \in Calls, NEW place, Goto(c, place), Advances(at[c], place),
               \A s \in Openers : session'[s] # session[s] => SessionAdvances(session[s], session'[s])
        PROVE  Forward
    BY <2>1 DEF Goto, TypeOK
  <2>2. ASSUME NEW c \in Openers, at[c] = "idle", GetHandle(c)
        PROVE  Forward
    <3>1. Goto(c, "connecting") /\ session[c] = "unused"
      BY <2>2 DEF GetHandle, StartedInv, PromisesAreStarted
    <3> QED
      BY <2>1, <2>2, <3>1 DEF GetHandle, Advances, SessionAdvances, TypeOK
  <2>3. ASSUME NEW s \in Openers, ConnectSettles(s) \/ ConnectFails(s)
        PROVE  Forward
    BY <2>3 DEF ConnectSettles, ConnectFails, SessionAdvances, TypeOK
  <2>4. ASSUME NEW q \in Queries, QueryPolicy(q)
        PROVE  Forward
    BY <2>1, <2>2, <2>4 DEF QueryPolicy, Advances
  <2>5. ASSUME NEW c \in Queries \cup Registers,
               Asks(c) \/ Answered(c) \/ Register(c) \/ RegisterMissing(c)
        PROVE  Forward
    BY <2>1, <2>2, <2>5
       DEF Asks, Answered, Register, RegisterMissing, HandleReady, HandleFailed, Advances, Settled
  <2>6. ASSUME NEW e \in Sends, SendEvent(e) \/ SendDeferred(e)
        PROVE  Forward
    BY <2>1, <2>2, <2>6
       DEF SendEvent, SendDeferred, HandleReady, HandleFailed, Advances, Settled
  <2>7. ASSUME NEW k \in Closes, Close(k) \/ Disconnect(k) \/ Disconnected(k)
        PROVE  Forward
    BY <2>1, <2>7
       DEF Close, Disconnect, Disconnected, ThrowStash, HandleReady, HandleFailed, Advances, Settled,
           client
  <2>8. ASSUME NEW k \in Closes, SessionShuts(k)
        PROVE  Forward
    BY <2>8 DEF SessionShuts, SessionAdvances, TypeOK
  <2> QED
    BY <2>3, <2>4, <2>5, <2>6, <2>7, <2>8 DEF Next
<1>2. TypeOK /\ StartedInv /\ [Next]_vars =>
        [/\ \A c \in Calls : at'[c] # at[c] => Advances(at[c], at'[c])
         /\ \A s \in Openers : session'[s] # session[s] => SessionAdvances(session[s], session'[s])]_vars
  BY <1>1
<1> QED
  BY <1>2, StartedHolds, PTL DEF Spec, CallsAdvance
=============================================================================
