------------------------- MODULE CallbackHandlerProofs -------------------------
(* The audit of every run, for any number of runs, any age and any clock.    *)
EXTENDS CallbackHandler, TLAPS

LEMMA TimesAreNotNone == Times \subseteq Int /\ None \notin Times
PROOF
  BY NoneAssumption DEF Times

LEMMA InitTypes == Init => TypeOK
PROOF
  BY AgeAssumption DEF Init, TypeOK, Times

LEMMA CleanedType == TypeOK => Cleaned \in [Runs -> Times \cup {None}]
PROOF
  BY DEF TypeOK, Cleaned

LEMMA NextTypes == TypeOK /\ [Next]_vars => TypeOK'
PROOF
<1> SUFFICES ASSUME TypeOK, [Next]_vars PROVE TypeOK'
  OBVIOUS
<1> USE CleanedType
<1>1. CASE Tick
  BY <1>1, AgeAssumption DEF Tick, TypeOK, Times
<1>2. ASSUME NEW r \in Runs, HandleToolStart(r)
      PROVE  TypeOK'
  BY <1>2 DEF HandleToolStart, Settles, TypeOK
<1>3. ASSUME NEW r \in Runs, CheckAnswered(r)
      PROVE  TypeOK'
  BY <1>3 DEF CheckAnswered, DenialTime, Audits, Settles, TypeOK
<1>4. ASSUME NEW r \in Runs, CheckThrows(r) \/ RecordSettles(r) \/ ToolFails(r)
      PROVE  TypeOK'
  BY <1>4 DEF CheckThrows, RecordSettles, ToolFails, Settles, TypeOK
<1>5. ASSUME NEW r \in Runs, HandleToolEnd(r)
      PROVE  TypeOK'
  BY <1>5 DEF HandleToolEnd, AfterEnd, Audits, Settles, TypeOK
<1>6. CASE HandleLLM
  BY <1>6 DEF HandleLLM, TypeOK
<1>7. CASE UNCHANGED vars
  BY <1>7 DEF vars, TypeOK
<1> QED
  BY <1>1, <1>2, <1>3, <1>4, <1>5, <1>6, <1>7 DEF Next

\* The handler's state keeps its type.
THEOREM TypeCorrect == Spec => []TypeOK
PROOF
  BY InitTypes, NextTypes, PTL DEF Spec

-----------------------------------------------------------------------------
(* What is remembered of a run: its denial, until its end or its expiry.     *)

Fresh(r) == at[r] \in {"idle", "checking"} => denied[r] = None

Open(r) ==
  /\ at[r] # "over" => ended[r] = None
  /\ denied[r] # None => denied[r] <= now

Remembered(r) ==
  /\ denied[r] = None => pendingDenials[r] = None
  /\ ended[r] # None => pendingDenials[r] = None
  /\ denied[r] # None /\ ended[r] = None =>
       \/ pendingDenials[r] = denied[r]
       \/ pendingDenials[r] = None /\ now - denied[r] >= MaxAge

IInv == \A r \in Runs : Fresh(r) /\ Open(r) /\ Remembered(r)

\* A cleanup forgets what has expired and nothing else.
LEMMA CleanupForgetsExpired ==
  ASSUME TypeOK, NEW r \in Runs, Open(r), Remembered(r)
  PROVE  /\ Cleaned[r] \in {pendingDenials[r], None}
         /\ ended[r] = None =>
              (Cleaned[r] # None <=> denied[r] # None /\ now - denied[r] < MaxAge)
PROOF
<1>1. Cleaned[r] = IF pendingDenials[r] # None /\ now - pendingDenials[r] >= MaxAge
                     THEN None ELSE pendingDenials[r]
  BY DEF Cleaned, Expired
<1> QED
  BY <1>1, AgeAssumption, TimesAreNotNone DEF TypeOK, Times, Remembered

LEMMA InitIInv == Init => IInv
PROOF
  BY DEF Init, IInv, Fresh, Open, Remembered

LEMMA NextIInv == TypeOK /\ IInv /\ [Next]_vars => IInv'
PROOF
<1> SUFFICES ASSUME TypeOK, IInv, [Next]_vars, NEW q \in Runs
             PROVE  Fresh(q)' /\ Open(q)' /\ Remembered(q)'
  BY DEF IInv
<1> USE AgeAssumption, TimesAreNotNone
<1>q. Fresh(q) /\ Open(q) /\ Remembered(q)
  BY DEF IInv
<1>c. /\ Cleaned[q] \in {pendingDenials[q], None}
      /\ ended[q] = None =>
           (Cleaned[q] # None <=> denied[q] # None /\ now - denied[q] < MaxAge)
  BY <1>q, CleanupForgetsExpired
<1>1. CASE Tick
  BY <1>1, <1>q DEF Tick, TypeOK, Times, Fresh, Open, Remembered
<1>2. ASSUME NEW r \in Runs, HandleToolStart(r)
      PROVE  Fresh(q)' /\ Open(q)' /\ Remembered(q)'
  <2>1. /\ pendingDenials'[q] = Cleaned[q]
        /\ at'[q] \in {at[q], "checking"}
        /\ at'[q] # at[q] => at[q] = "idle"
        /\ UNCHANGED <<now, denied, ended>>
    BY <1>2 DEF HandleToolStart, Settles, TypeOK
  <2> QED
    BY <1>q, <1>c, <2>1 DEF TypeOK, Times, Fresh, Open, Remembered
<1>3. ASSUME NEW r \in Runs, CheckAnswered(r)
      PROVE  Fresh(q)' /\ Open(q)' /\ Remembered(q)'
  <2>1. CASE q = r
    BY <1>3, <2>1, <1>q DEF CheckAnswered, DenialTime, Settles, TypeOK, Times,
                            Fresh, Open, Remembered
  <2>2. CASE q # r
    BY <1>3, <2>2, <1>q DEF CheckAnswered, Settles, TypeOK, Fresh, Open, Remembered
  <2> QED
    BY <2>1, <2>2
<1>4. ASSUME NEW r \in Runs, CheckThrows(r) \/ RecordSettles(r) \/ ToolFails(r)
      PROVE  Fresh(q)' /\ Open(q)' /\ Remembered(q)'
  BY <1>4, <1>q DEF CheckThrows, RecordSettles, ToolFails, Settles, TypeOK, Fresh,
                    Open, Remembered
<1>5. ASSUME NEW r \in Runs, HandleToolEnd(r)
      PROVE  Fresh(q)' /\ Open(q)' /\ Remembered(q)'
  <2>1. UNCHANGED <<now, denied>>
    BY <1>5 DEF HandleToolEnd
  <2>2. CASE q = r
    <3>1. pendingDenials'[q] = None /\ at'[q] = "over"
      BY <1>5, <2>2, CleanedType DEF HandleToolEnd, AfterEnd, Settles, TypeOK
    <3>2. ended'[q] = now
      BY <1>5, <2>2 DEF HandleToolEnd, TypeOK
    <3> QED
      BY <1>q, <2>1, <3>1, <3>2 DEF TypeOK, Times, Fresh, Open, Remembered
  <2>3. CASE q # r
    <3>1. pendingDenials'[q] = Cleaned[q] /\ at'[q] = at[q] /\ ended'[q] = ended[q]
      BY <1>5, <2>3, CleanedType DEF HandleToolEnd, AfterEnd, Settles, TypeOK
    <3> QED
      BY <1>q, <1>c, <2>1, <3>1 DEF TypeOK, Times, Fresh, Open, Remembered
  <2> QED
    BY <2>2, <2>3
<1>6. CASE HandleLLM
  <2>1. pendingDenials'[q] = Cleaned[q] /\ UNCHANGED <<now, at, denied, ended>>
    BY <1>6 DEF HandleLLM
  <2> QED
    BY <1>q, <1>c, <2>1 DEF TypeOK, Times, Fresh, Open, Remembered
<1>7. CASE UNCHANGED vars
  BY <1>7, <1>q DEF vars, Fresh, Open, Remembered
<1> QED
  BY <1>1, <1>2, <1>3, <1>4, <1>5, <1>6, <1>7 DEF Next

LEMMA SpecIInv == Spec => [](TypeOK /\ IInv)
PROOF
  BY InitTypes, NextTypes, InitIInv, NextIInv, PTL DEF Spec

\* A remembered denial belongs to a denied run whose handleToolEnd has not run.
THEOREM PendingDenialsAreLive == Spec => []PendingIsLive
PROOF
<1>1. TypeOK /\ IInv => PendingIsLive
  BY DEF IInv, Remembered, PendingIsLive
<1> QED
  BY <1>1, SpecIInv, PTL

-----------------------------------------------------------------------------
(* The audit.                                                                *)

LEMMA InitAudit == Init => AuditMatchesVerdict
PROOF
  BY DEF Init, AuditMatchesVerdict

LEMMA NextAudit ==
  TypeOK /\ IInv /\ AuditMatchesVerdict /\ [Next]_vars => AuditMatchesVerdict'
PROOF
<1> SUFFICES ASSUME TypeOK, IInv, AuditMatchesVerdict, [Next]_vars
             PROVE  AuditMatchesVerdict'
  OBVIOUS
<1>1. CASE UNCHANGED <<denied, ended, audit>>
  BY <1>1 DEF AuditMatchesVerdict
<1>2. ASSUME NEW r \in Runs, CheckAnswered(r)
      PROVE  AuditMatchesVerdict'
  <2>1. ended[r] = None
    BY <1>2 DEF CheckAnswered, IInv, Open
  <2>2. audit'[r] = audit[r] \cup {"tool_start_check"} /\ UNCHANGED ended
    BY <1>2 DEF CheckAnswered, Audits, TypeOK
  <2>3. \A q \in Runs \ {r} : audit'[q] = audit[q] /\ denied'[q] = denied[q]
    BY <1>2 DEF CheckAnswered, Audits, TypeOK
  <2> QED
    BY <2>1, <2>2, <2>3 DEF AuditMatchesVerdict
<1>3. ASSUME NEW r \in Runs, HandleToolEnd(r)
      PROVE  AuditMatchesVerdict'
  <2>1. ended[r] = None /\ ended'[r] = now /\ now # None /\ UNCHANGED denied
    BY <1>3, TimesAreNotNone DEF HandleToolEnd, IInv, Open, TypeOK, Times
  <2>2. Cleaned[r] # None <=> denied[r] # None /\ now - denied[r] < MaxAge
    BY <2>1, CleanupForgetsExpired DEF IInv
  <2>3. audit'[r] = audit[r] \cup
                      {IF Cleaned[r] # None THEN "policy_post_block" ELSE "result"}
    BY <1>3 DEF HandleToolEnd, Audits, TypeOK
  <2>4. audit[r] \subseteq {"tool_start_check"}
    BY <2>1 DEF AuditMatchesVerdict
  <2>5. \A q \in Runs \ {r} : audit'[q] = audit[q] /\ ended'[q] = ended[q]
    BY <1>3 DEF HandleToolEnd, Audits, TypeOK
  <2> QED
    BY <2>1, <2>2, <2>3, <2>4, <2>5 DEF AuditMatchesVerdict
<1> QED
  BY <1>1, <1>2, <1>3
     DEF Next, Tick, HandleToolStart, CheckThrows, RecordSettles, ToolFails, HandleLLM, vars

\* Whatever other runs do, a run that ends is audited once, as its verdict and
\* the age of its denial say.
THEOREM AuditIsExact == Spec => []AuditMatchesVerdict
PROOF
  BY SpecIInv, InitAudit, NextAudit, PTL DEF Spec
=============================================================================
