-------------------------- MODULE GovernedCallProofs --------------------------
(* Governed calls through any stacking of wrappers, for any calls and ops:   *)
(* what runs, what is audited and what the caller is told.                   *)
EXTENDS GovernedCall, SequenceTheorems, TLAPS

Words == {"none", "timeout"} \cup CheckAnswers \cup ApprovalAnswers

\* The variables are functions and sets of the shape that the steps of a call
\* change at one place.
Shape ==
  /\ layers \in Stackings
  /\ at \in [Calls -> Nat]
  /\ stage \in [Calls -> Stages]
  /\ word \in [Calls -> UNION {[1 .. n -> Words] : n \in Nat}]
  /\ handed \subseteq Calls \X Nat
  /\ reported \subseteq Calls \X Nat
  /\ ran \subseteq Calls
  /\ \A c \in Calls : /\ Len(layers[c]) \in Nat
                      /\ DOMAIN layers[c] = 1 .. Len(layers[c])
                      /\ \A i \in 1 .. Len(layers[c]) : layers[c][i] \in Kinds
                      /\ at[c] \in 1 .. Len(layers[c])
                      /\ word[c] \in [1 .. Len(layers[c]) -> Words]

\* The layers a call has passed said yes, those it has not reached nothing.
Answers(c) ==
  /\ \A i \in 1 .. Len(layers[c]) : i < at[c] => word[c][i] \in Permits
  /\ \A i \in 1 .. Len(layers[c]) : i > at[c] => word[c][i] = "none"
  /\ stage[c] \in {"idle", "gate", "checking"} => word[c][at[c]] = "none"
  /\ stage[c] = "approving" => word[c][at[c]] = "pending"
  /\ stage[c] = "idle" => at[c] = 1

\* A tool runs in the innermost layer, after that one's yes.
Runs(c) ==
  /\ stage[c] \in {"running", "returned"} => c \in ran
  /\ c \in ran => /\ at[c] = Len(layers[c])
                  /\ word[c][at[c]] \in Permits
                  /\ stage[c] \in {"running", "returned", "failed"}

\* Results are reported when the tool has returned.
Results(c) ==
  /\ \A n \in Nat : <<c, n>> \in reported => stage[c] \in {"returned", "failed"}
  /\ stage[c] = "returned" => \A i \in Reporters(c) : <<c, i>> \in reported

\* The layer that refuses hands its denial over, and stays.
Denials(c) ==
  /\ stage[c] = "recording" => <<c, at[c]>> \in handed
  /\ stage[c] = "rejected" /\ Kind(c) = "withAssembly" /\ word[c][at[c]] # "none" =>
       <<c, at[c]>> \in handed
  /\ \A n \in Nat : <<c, n>> \in handed => n = at[c] /\ stage[c] \in {"recording", "rejected"}

CallInv(c) == Answers(c) /\ Runs(c) /\ Results(c) /\ Denials(c)

GInv == Shape /\ \A c \in Calls : CallInv(c)

LEMMA InvImplies ==
  GInv => RunsOnlyIfPermitted /\ DenialsAndOnlyDenialsAreHanded /\ OutcomeTellsRun
PROOF
<1> SUFFICES ASSUME GInv
             PROVE  RunsOnlyIfPermitted /\ DenialsAndOnlyDenialsAreHanded /\ OutcomeTellsRun
  OBVIOUS
<1>1. RunsOnlyIfPermitted
  <2> SUFFICES ASSUME NEW c \in ran, NEW i \in DOMAIN layers[c] PROVE word[c][i] \in Permits
    BY DEF RunsOnlyIfPermitted
  <2>1. c \in Calls /\ i \in 1 .. Len(layers[c]) /\ Len(layers[c]) \in Nat
    BY DEF GInv, Shape
  <2>2. Answers(c) /\ Runs(c)
    BY <2>1 DEF GInv, CallInv
  <2> QED
    BY <2>1, <2>2 DEF Answers, Runs
<1>2. DenialsAndOnlyDenialsAreHanded
  <2>1. ASSUME NEW e \in handed PROVE at[e[1]] = e[2] /\ stage[e[1]] \in {"recording", "rejected"}
    <3>1. e[1] \in Calls /\ e[2] \in Nat /\ e = <<e[1], e[2]>>
      BY <2>1 DEF GInv, Shape
    <3> QED
      BY <2>1, <3>1 DEF GInv, CallInv, Denials
  <2> QED
    BY <2>1 DEF GInv, CallInv, Denials, DenialsAndOnlyDenialsAreHanded
<1>3. OutcomeTellsRun
  <2>1. ASSUME NEW e \in reported PROVE stage[e[1]] \in {"returned", "failed"}
    <3>1. e[1] \in Calls /\ e[2] \in Nat /\ e = <<e[1], e[2]>>
      BY <2>1 DEF GInv, Shape
    <3> QED
      BY <2>1, <3>1 DEF GInv, CallInv, Results
  <2> QED
    BY <2>1 DEF GInv, CallInv, Runs, Results, OutcomeTellsRun
<1> QED
  BY <1>1, <1>2, <1>3

LEMMA InitGoverned == Init => GInv
PROOF
<1> SUFFICES ASSUME Init PROVE GInv
  OBVIOUS
<1>1. ASSUME NEW c \in Calls
      PROVE  /\ Len(layers[c]) \in Nat /\ DOMAIN layers[c] = 1 .. Len(layers[c])
             /\ 1 \in 1 .. Len(layers[c])
             /\ \A i \in 1 .. Len(layers[c]) : layers[c][i] \in Kinds
  <2>1. layers[c] \in Seq(Kinds) /\ layers[c] # <<>>
    BY StackingsAssumption DEF Init
  <2>2. Len(layers[c]) \in Nat /\ DOMAIN layers[c] = 1 .. Len(layers[c])
    BY <2>1
  <2>3. Len(layers[c]) # 0
    BY <2>1, EmptySeq
  <2> QED
    BY <2>1, <2>2, <2>3
<1>2. ASSUME NEW c \in Calls PROVE word[c] \in [1 .. Len(layers[c]) -> Words]
  <2>1. word[c] = [i \in 1 .. Len(layers[c]) |-> "none"]
    BY <1>1 DEF Init
  <2> QED
    BY <2>1 DEF Words
<1>3. word \in [Calls -> UNION {[1 .. n -> Words] : n \in Nat}]
  <2>1. word = [c \in Calls |-> word[c]]
    BY DEF Init
  <2> QED
    BY <1>1, <1>2, <2>1
<1>4. Shape
  BY <1>1, <1>2, <1>3 DEF Init, Shape, Stages
<1>5. ASSUME NEW c \in Calls PROVE CallInv(c)
  <2>1. /\ at[c] = 1 /\ stage[c] = "idle" /\ ran = {} /\ handed = {} /\ reported = {}
        /\ \A i \in 1 .. Len(layers[c]) : word[c][i] = "none"
    BY <1>1 DEF Init
  <2> QED
    BY <1>1, <2>1 DEF CallInv, Answers, Runs, Results, Denials
<1> QED
  BY <1>4, <1>5 DEF GInv

-----------------------------------------------------------------------------
(* A step of one call leaves the others alone.                             *)
Untouched(d) ==
  /\ at'[d] = at[d] /\ stage'[d] = stage[d] /\ word'[d] = word[d]
  /\ d \in ran' <=> d \in ran
  /\ \A n \in Nat : <<d, n>> \in handed' <=> <<d, n>> \in handed
  /\ \A n \in Nat : <<d, n>> \in reported' <=> <<d, n>> \in reported

LEMMA UntouchedKeeps ==
  ASSUME Shape, UNCHANGED layers, NEW d \in Calls, CallInv(d), Untouched(d)
  PROVE  CallInv(d)'
PROOF
<1>1. Answers(d)'
  BY DEF CallInv, Answers, Untouched
<1>2. Runs(d)'
  BY DEF CallInv, Runs, Untouched
<1>3. at[d] \in Nat /\ Reporters(d)' = Reporters(d) /\ \A i \in Reporters(d) : i \in Nat
  BY DEF Shape, Reporters
<1>4. Results(d)'
  BY <1>3 DEF CallInv, Results, Untouched
<1>5. Denials(d)'
  BY <1>3 DEF CallInv, Denials, Untouched, Kind
<1> QED
  BY <1>1, <1>2, <1>4, <1>5 DEF CallInv

\* What call c's steps may change: its own layer, stage and words, and what is
\* said of it.
Touches(c) ==
  /\ UNCHANGED layers
  /\ \E i \in 1 .. Len(layers[c]) : at' = [at EXCEPT ![c] = i]
  /\ \E s \in Stages : stage' = [stage EXCEPT ![c] = s]
  /\ UNCHANGED word \/ \E i \in 1 .. Len(layers[c]), w \in Words : word' = [word EXCEPT ![c][i] = w]
  /\ ran' = ran \/ ran' = ran \cup {c}
  /\ handed' = handed \/ handed' = handed \cup {<<c, at[c]>>}
  /\ \/ reported' = reported
     \/ \E S \in SUBSET Reporters(c) : reported' = reported \cup {<<c, i>> : i \in S}

LEMMA OthersUntouched ==
  ASSUME Shape, NEW c \in Calls, Touches(c), NEW d \in Calls, d # c
  PROVE  Untouched(d)
PROOF
<1>1. at'[d] = at[d] /\ stage'[d] = stage[d] /\ word'[d] = word[d]
  BY DEF Touches, Shape
<1>2. d \in ran' <=> d \in ran
  BY DEF Touches
<1>3. \A n \in Nat : <<d, n>> \in handed' <=> <<d, n>> \in handed
  BY DEF Touches
<1>4. \A n \in Nat : <<d, n>> \in reported' <=> <<d, n>> \in reported
  BY DEF Touches
<1> QED
  BY <1>1, <1>2, <1>3, <1>4 DEF Untouched

LEMMA TouchKeeps ==
  ASSUME GInv, NEW c \in Calls, Touches(c), CallInv(c)'
  PROVE  GInv'
PROOF
<1>1. Len(layers[c]) \in Nat /\ Shape
  BY DEF GInv, Shape
<1>2. at' \in [Calls -> Nat] /\ stage' \in [Calls -> Stages]
  BY <1>1 DEF Touches, Shape
<1>3. \A d \in Calls : word'[d] \in [1 .. Len(layers[d]) -> Words]
  <2>1. CASE UNCHANGED word
    BY <1>1, <2>1 DEF Shape
  <2>2. ASSUME NEW i \in 1 .. Len(layers[c]), NEW w \in Words, word' = [word EXCEPT ![c][i] = w]
        PROVE  \A d \in Calls : word'[d] \in [1 .. Len(layers[d]) -> Words]
    <3>1. word[c] \in [1 .. Len(layers[c]) -> Words] /\ word'[c] = [word[c] EXCEPT ![i] = w]
      BY <1>1, <2>2 DEF Shape
    <3>2. word'[c] \in [1 .. Len(layers[c]) -> Words]
      BY <3>1
    <3>3. \A d \in Calls : d # c => word'[d] = word[d]
      BY <1>1, <2>2 DEF Shape
    <3> QED
      BY <1>1, <3>2, <3>3 DEF Shape
  <2> QED
    BY <2>1, <2>2 DEF Touches
<1>4. word' \in [Calls -> UNION {[1 .. n -> Words] : n \in Nat}]
  <2>1. word' = [d \in Calls |-> word'[d]]
    BY <1>1 DEF Touches, Shape
  <2>2. \A d \in Calls : Len(layers[d]) \in Nat
    BY <1>1 DEF Shape
  <2> QED
    BY <1>3, <2>1, <2>2
<1>5. handed' \subseteq Calls \X Nat /\ ran' \subseteq Calls
  BY <1>1 DEF Touches, Shape
<1>6. reported' \subseteq Calls \X Nat
  <2>1. Reporters(c) \subseteq Nat
    BY <1>1 DEF Reporters, Shape
  <2> QED
    BY <1>1, <2>1 DEF Touches, Shape
<1>7. \A d \in Calls : at'[d] \in 1 .. Len(layers[d])
  BY <1>1 DEF Touches, Shape
<1>8. Shape'
  BY <1>1, <1>2, <1>3, <1>4, <1>5, <1>6, <1>7 DEF Touches, Shape
<1>9. ASSUME NEW d \in Calls, d # c PROVE Untouched(d)
  BY <1>1, <1>9, OthersUntouched
<1> QED
  BY <1>1, <1>8, <1>9, UntouchedKeeps DEF GInv, Touches

-----------------------------------------------------------------------------
(* The steps of a call.                                                    *)

\* What a layer does with an answer it got in time, or its timeout.
Decides(c, w) ==
  /\ stage[c] \in {"checking", "approving"}
  /\ word' = [word EXCEPT ![c][at[c]] = w]

LEMMA NewWord ==
  ASSUME Shape, NEW c \in Calls, NEW w, word' = [word EXCEPT ![c][at[c]] = w]
  PROVE  /\ word'[c][at[c]] = w
         /\ \A i \in 1 .. Len(layers[c]) : i # at[c] => word'[c][i] = word[c][i]
PROOF
<1>1. word[c] \in [1 .. Len(layers[c]) -> Words] /\ at[c] \in 1 .. Len(layers[c])
  BY DEF Shape
<1>2. word'[c] = [word[c] EXCEPT ![at[c]] = w]
  BY DEF Shape
<1> QED
  BY <1>1, <1>2

LEMMA ProceedKeeps ==
  ASSUME GInv, NEW c \in Calls, NEW w \in Permits, Decides(c, w), Proceed(c)
  PROVE  GInv' /\ Touches(c)
PROOF
<1>1. /\ Shape /\ CallInv(c) /\ at[c] \in 1 .. Len(layers[c]) /\ Len(layers[c]) \in Nat
      /\ at \in [Calls -> Nat] /\ stage \in [Calls -> Stages] /\ w \in Words
      /\ word' = [word EXCEPT ![c][at[c]] = w]
  BY DEF GInv, Shape, Permits, Words, CheckAnswers, ApprovalAnswers, Decides
<1>2. /\ word'[c][at[c]] = w
      /\ \A i \in 1 .. Len(layers[c]) : i # at[c] => word'[c][i] = word[c][i]
  BY <1>1, NewWord
<1>3. c \notin ran /\ \A n \in Nat : <<c, n>> \notin reported /\ <<c, n>> \notin handed
  BY <1>1 DEF CallInv, Runs, Results, Denials, Decides
<1>4. CASE at[c] < Len(layers[c]) /\ Enter(c, at[c] + 1)
  <2>1. /\ at' = [at EXCEPT ![c] = at[c] + 1] /\ at[c] + 1 \in 1 .. Len(layers[c])
        /\ \E s \in {"gate", "checking"} : stage' = [stage EXCEPT ![c] = s]
        /\ UNCHANGED <<layers, handed, ran, reported>>
    BY <1>1, <1>4 DEF Enter
  <2>2. at'[c] = at[c] + 1 /\ stage'[c] \in {"gate", "checking"}
    BY <1>1, <2>1
  <2>3. Touches(c)
    BY <1>1, <2>1 DEF Touches, Stages
  <2>4. Answers(c)'
    BY <1>1, <1>2, <2>1, <2>2 DEF Answers, CallInv
  <2>5. (Runs(c) /\ Results(c) /\ Denials(c))'
    BY <1>3, <2>1, <2>2 DEF Runs, Results, Denials
  <2> QED
    BY <2>3, <2>4, <2>5, TouchKeeps DEF CallInv
<1>5. CASE at[c] = Len(layers[c]) /\ ran' = ran \cup {c} /\ UNCHANGED <<layers, at, handed, reported>>
           /\ stage' = [stage EXCEPT ![c] = "running"]
  <2>1. at'[c] = at[c] /\ stage'[c] = "running" /\ at' = [at EXCEPT ![c] = at[c]]
    BY <1>1, <1>5
  <2>2. Touches(c)
    BY <1>1, <1>5, <2>1 DEF Touches, Stages
  <2>3. Answers(c)'
    BY <1>1, <1>2, <1>5, <2>1 DEF Answers, CallInv
  <2>4. (Runs(c) /\ Results(c) /\ Denials(c))'
    BY <1>2, <1>3, <1>5, <2>1 DEF Runs, Results, Denials
  <2> QED
    BY <2>2, <2>3, <2>4, TouchKeeps DEF CallInv
<1> QED
  BY <1>4, <1>5 DEF Proceed

LEMMA DeniesKeeps ==
  ASSUME GInv, NEW c \in Calls, NEW w \in Words \ {"none"}, Decides(c, w), Denies(c),
         UNCHANGED <<layers, at, reported>>
  PROVE  GInv' /\ Touches(c)
PROOF
<1>1. /\ Shape /\ CallInv(c) /\ at[c] \in 1 .. Len(layers[c]) /\ Len(layers[c]) \in Nat
      /\ at \in [Calls -> Nat] /\ stage \in [Calls -> Stages] /\ Kind(c) \in Kinds
      /\ word' = [word EXCEPT ![c][at[c]] = w]
  BY DEF GInv, Shape, Kind, Decides
<1>2. /\ word'[c][at[c]] = w
      /\ \A i \in 1 .. Len(layers[c]) : i # at[c] => word'[c][i] = word[c][i]
  BY <1>1, NewWord
<1>3. c \notin ran /\ \A n \in Nat : <<c, n>> \notin reported /\ <<c, n>> \notin handed
  BY <1>1 DEF CallInv, Runs, Results, Denials, Decides
<1>4. /\ Refusal[Kind(c)] \in {"recording", "denialOutput", "rejected"}
      /\ Refusal[Kind(c)] = "recording" <=> Kind(c) = "withAssembly"
  BY <1>1 DEF Refusal, Kinds
<1>5. /\ at'[c] = at[c] /\ stage'[c] = Refusal[Kind(c)] /\ at' = [at EXCEPT ![c] = at[c]]
      /\ UNCHANGED ran /\ Kind(c)' = Kind(c)
      /\ handed' = IF Kind(c) = "withAssembly" THEN handed \cup {<<c, at[c]>>} ELSE handed
  BY <1>1 DEF Denies, Kind
<1>6. Touches(c)
  <2>1. \E s \in Stages : stage' = [stage EXCEPT ![c] = s]
    BY <1>4 DEF Denies, Stages
  <2> QED
    BY <1>1, <1>5, <2>1 DEF Touches
<1>7. Answers(c)'
  BY <1>1, <1>2, <1>4, <1>5 DEF Answers, CallInv
<1>8. (Runs(c) /\ Results(c))'
  BY <1>3, <1>4, <1>5 DEF Runs, Results
<1>9. Denials(c)'
  BY <1>1, <1>3, <1>4, <1>5 DEF Denials
<1> QED
  BY <1>6, <1>7, <1>8, <1>9, TouchKeeps DEF CallInv

\* A step that only moves call c to stage s.
LEMMA MoveKeeps ==
  ASSUME GInv, NEW c \in Calls, NEW s \in Stages, CallInv(c)',
         stage' = [stage EXCEPT ![c] = s], UNCHANGED <<layers, at, handed, ran, reported>>,
         UNCHANGED word \/ \E w \in Words : word' = [word EXCEPT ![c][at[c]] = w]
  PROVE  GInv' /\ Touches(c)
PROOF
<1>1. at[c] \in 1 .. Len(layers[c]) /\ at' = [at EXCEPT ![c] = at[c]]
  BY DEF GInv, Shape
<1>2. Touches(c)
  BY <1>1 DEF Touches
<1> QED
  BY <1>2, TouchKeeps

\* The gateway's check or approval throws, or the check says to wait.
LEMMA HaltKeeps ==
  ASSUME GInv, NEW c \in Calls, NEW w \in Words, NEW s \in {"failed", "approving"},
         s = "approving" => w = "pending", Decides(c, w), stage' = [stage EXCEPT ![c] = s],
         UNCHANGED <<layers, at, handed, ran, reported>>
  PROVE  GInv' /\ Touches(c)
PROOF
<1>1. /\ Shape /\ CallInv(c) /\ at[c] \in 1 .. Len(layers[c]) /\ stage \in [Calls -> Stages]
      /\ word' = [word EXCEPT ![c][at[c]] = w]
  BY DEF GInv, Shape, Decides
<1>2. /\ word'[c][at[c]] = w
      /\ \A i \in 1 .. Len(layers[c]) : i # at[c] => word'[c][i] = word[c][i]
  BY <1>1, NewWord
<1>3. c \notin ran /\ \A n \in Nat : <<c, n>> \notin reported /\ <<c, n>> \notin handed
  BY <1>1 DEF CallInv, Runs, Results, Denials, Decides
<1>4. stage'[c] = s
  BY <1>1
<1>5. CallInv(c)'
  BY <1>1, <1>2, <1>3, <1>4 DEF CallInv, Answers, Runs, Results, Denials
<1> QED
  BY <1>1, <1>5, MoveKeeps DEF Stages

-----------------------------------------------------------------------------
LEMMA InvokeKeeps == ASSUME GInv, NEW c \in Calls, Invoke(c) PROVE GInv' /\ Touches(c)
PROOF
<1>1. /\ Shape /\ CallInv(c) /\ at[c] \in 1 .. Len(layers[c]) /\ Len(layers[c]) \in Nat
      /\ at \in [Calls -> Nat] /\ stage \in [Calls -> Stages] /\ stage[c] = "idle"
  BY DEF GInv, Shape, Invoke
<1>2. /\ at[c] = 1 /\ at' = [at EXCEPT ![c] = 1]
      /\ UNCHANGED <<layers, word, handed, ran, reported>>
      /\ \E s \in {"gate", "checking"} : stage' = [stage EXCEPT ![c] = s]
  BY <1>1 DEF CallInv, Answers, Invoke, Enter
<1>3. at'[c] = at[c] /\ stage'[c] \in {"gate", "checking"}
  BY <1>1, <1>2
<1>4. c \notin ran /\ \A n \in Nat : <<c, n>> \notin reported /\ <<c, n>> \notin handed
  BY <1>1 DEF CallInv, Runs, Results, Denials
<1>5. Touches(c)
  BY <1>1, <1>2 DEF Touches, Stages
<1>6. CallInv(c)'
  BY <1>1, <1>2, <1>3, <1>4 DEF CallInv, Answers, Runs, Results, Denials
<1> QED
  BY <1>5, <1>6, TouchKeeps

LEMMA PassGateKeeps == ASSUME GInv, NEW c \in Calls, PassGate(c) PROVE GInv' /\ Touches(c)
PROOF
<1>1. /\ Shape /\ CallInv(c) /\ stage \in [Calls -> Stages] /\ stage[c] = "gate"
  BY DEF GInv, Shape, PassGate
<1>2. /\ UNCHANGED <<layers, at, word, handed, ran, reported>>
      /\ \E s \in {"rejected", "checking"} : stage' = [stage EXCEPT ![c] = s]
  BY DEF PassGate, AfterGate
<1>3. stage'[c] \in {"rejected", "checking"}
  BY <1>1, <1>2
<1>4. c \notin ran /\ (\A n \in Nat : <<c, n>> \notin reported /\ <<c, n>> \notin handed)
      /\ word[c][at[c]] = "none"
  BY <1>1 DEF CallInv, Answers, Runs, Results, Denials
<1>5. CallInv(c)'
  BY <1>1, <1>2, <1>3, <1>4 DEF CallInv, Answers, Runs, Results, Denials
<1> QED
  BY <1>2, <1>5, MoveKeeps DEF Stages

LEMMA CheckKeeps ==
  ASSUME GInv, NEW c \in Calls, NEW a \in CheckAnswers, CheckAnswered(c, a)
  PROVE  GInv' /\ Touches(c)
PROOF
<1>1. Decides(c, a) /\ a \in Words \ {"none"}
  BY DEF CheckAnswered, Decides, Words, CheckAnswers
<1>2. CASE a = "allow" /\ Proceed(c)
  BY <1>1, <1>2, ProceedKeeps DEF Permits
<1>3. CASE Denies(c) /\ UNCHANGED <<layers, at, reported>>
  BY <1>1, <1>3, DeniesKeeps
<1>4. ASSUME NEW s \in {"approving", "failed"}, s = "approving" => a = "pending",
             stage' = [stage EXCEPT ![c] = s], UNCHANGED <<layers, at, handed, ran, reported>>
      PROVE  GInv' /\ Touches(c)
  BY <1>1, <1>4, HaltKeeps
<1> QED
  BY <1>2, <1>3, <1>4 DEF CheckAnswered

LEMMA ApprovalKeeps ==
  ASSUME GInv, NEW c \in Calls, NEW a \in ApprovalAnswers, NEW i \in DOMAIN layers[c],
         ApprovalAnswered(c, i, a)
  PROVE  GInv' /\ Touches(c)
PROOF
<1>1. CASE RaceOpen(c, i) /\ word' = [word EXCEPT ![c][i] = a]
  <2>1. Decides(c, a) /\ a \in Words \ {"none"} /\ i = at[c]
    BY <1>1 DEF RaceOpen, Decides, Words, ApprovalAnswers
  <2>2. CASE a = "approved" /\ Proceed(c)
    BY <2>1, <2>2, ProceedKeeps DEF Permits
  <2>3. CASE Denies(c) /\ UNCHANGED <<layers, at, reported>>
    BY <2>1, <2>3, DeniesKeeps
  <2>4. CASE stage' = [stage EXCEPT ![c] = "failed"] /\ UNCHANGED <<layers, at, handed, ran, reported>>
    BY <2>1, <2>4, HaltKeeps
  <2>5. ~UNCHANGED word \/ RaceOpen(c, i)
    BY <1>1
  <2> QED
    BY <1>1, <2>2, <2>3, <2>4 DEF ApprovalAnswered
<1>2. CASE UNCHANGED <<layers, at, stage, word, handed, ran, reported>>
  <2>1. GInv'
    BY <1>2 DEF GInv, Shape, CallInv, Answers, Runs, Results, Denials, Kind, Reporters
  <2>2. /\ at[c] \in 1 .. Len(layers[c]) /\ at' = [at EXCEPT ![c] = at[c]]
        /\ stage[c] \in Stages /\ stage' = [stage EXCEPT ![c] = stage[c]]
    BY <1>2 DEF GInv, Shape
  <2> QED
    BY <1>2, <2>1, <2>2 DEF Touches
<1> QED
  BY <1>1, <1>2 DEF ApprovalAnswered

LEMMA TimeoutKeeps == ASSUME GInv, NEW c \in Calls, ApprovalTimeout(c) PROVE GInv' /\ Touches(c)
PROOF
<1>1. Decides(c, "timeout") /\ "timeout" \in Words \ {"none"}
  BY DEF ApprovalTimeout, TimeoutArmed, Decides, Words
<1>2. Denies(c) /\ UNCHANGED <<layers, at, reported>>
  BY DEF ApprovalTimeout, AfterTimeout
<1> QED
  BY <1>1, <1>2, DeniesKeeps

LEMMA RecordKeeps ==
  ASSUME GInv, NEW c \in Calls, NEW f \in BOOLEAN, RecordSettled(c, f) PROVE GInv' /\ Touches(c)
PROOF
<1>1. /\ Shape /\ CallInv(c) /\ stage \in [Calls -> Stages] /\ stage[c] = "recording"
      /\ stage' = [stage EXCEPT ![c] = "rejected"]
      /\ UNCHANGED <<layers, at, word, handed, ran, reported>>
  BY DEF GInv, Shape, RecordSettled, AfterRecord
<1>2. stage'[c] = "rejected"
  BY <1>1
<1>3. c \notin ran /\ \A n \in Nat : <<c, n>> \notin reported
  BY <1>1 DEF CallInv, Runs, Results
<1>4. (Answers(c) /\ Runs(c) /\ Results(c))'
  BY <1>1, <1>2, <1>3 DEF CallInv, Answers, Runs, Results
<1>5. Denials(c)'
  BY <1>1, <1>2 DEF CallInv, Denials
<1> QED
  BY <1>1, <1>4, <1>5, MoveKeeps DEF CallInv, Stages

LEMMA ReturnKeeps == ASSUME GInv, NEW c \in Calls, ToolReturns(c) PROVE GInv' /\ Touches(c)
PROOF
<1>1. /\ Shape /\ CallInv(c) /\ stage \in [Calls -> Stages] /\ stage[c] = "running"
      /\ at[c] \in 1 .. Len(layers[c]) /\ at' = [at EXCEPT ![c] = at[c]]
      /\ UNCHANGED <<layers, at, word, handed, ran>> /\ Reporters(c) \subseteq Nat
      /\ Reporters(c)' = Reporters(c)
  <2>1. UNCHANGED <<layers, at, word, handed, ran>> /\ stage[c] = "running"
    BY DEF ToolReturns
  <2>2. Shape /\ CallInv(c) /\ stage \in [Calls -> Stages] /\ at \in [Calls -> Nat]
    BY DEF GInv, Shape
  <2>3. at[c] \in 1 .. Len(layers[c]) /\ DOMAIN layers[c] \subseteq Nat
    BY DEF GInv, Shape
  <2>4. at' = [at EXCEPT ![c] = at[c]]
    BY <2>1, <2>2
  <2> QED
    BY <2>1, <2>2, <2>3, <2>4 DEF Reporters
<1>2. PICK how \in [Reporters(c) -> {"ok", "rejects", "throws"}] :
        LET failing == {i \in Reporters(c) : AfterReport(how[i]) = "failed"}
            reached == {i \in Reporters(c) : \A j \in failing : i >= j}
        IN /\ reported' = reported \cup {<<c, i>> : i \in reached}
           /\ stage' = [stage EXCEPT ![c] = IF failing = {} THEN "returned" ELSE "failed"]
  BY DEF ToolReturns
<1> DEFINE failing == {i \in Reporters(c) : AfterReport(how[i]) = "failed"}
           reached == {i \in Reporters(c) : \A j \in failing : i >= j}
<1>3. /\ reported' = reported \cup {<<c, i>> : i \in reached} /\ reached \subseteq Reporters(c)
      /\ stage' = [stage EXCEPT ![c] = IF failing = {} THEN "returned" ELSE "failed"]
      /\ failing = {} => reached = Reporters(c)
  BY <1>2
<1> HIDE DEF failing, reached
<1>4. stage'[c] = IF failing = {} THEN "returned" ELSE "failed"
  BY <1>1, <1>3
<1>5. Touches(c)
  BY <1>1, <1>3 DEF Touches, Stages
<1>6. Results(c)'
  BY <1>1, <1>3, <1>4 DEF Results
<1>7. (Answers(c) /\ Runs(c) /\ Denials(c))'
  BY <1>1, <1>4 DEF CallInv, Answers, Runs, Denials
<1> QED
  BY <1>5, <1>6, <1>7, TouchKeeps DEF CallInv

LEMMA ThrowKeeps == ASSUME GInv, NEW c \in Calls, ToolThrows(c) PROVE GInv' /\ Touches(c)
PROOF
<1>1. /\ Shape /\ CallInv(c) /\ stage \in [Calls -> Stages] /\ stage[c] = "running"
      /\ stage' = [stage EXCEPT ![c] = "failed"]
      /\ UNCHANGED <<layers, at, word, handed, ran, reported>>
  BY DEF GInv, Shape, ToolThrows
<1>2. stage'[c] = "failed"
  BY <1>1
<1>3. CallInv(c)'
  BY <1>1, <1>2 DEF CallInv, Answers, Runs, Results, Denials
<1> QED
  BY <1>1, <1>3, MoveKeeps DEF Stages

LEMMA NextGoverned == GInv /\ [Next]_vars => GInv'
PROOF
<1> SUFFICES ASSUME GInv, [Next]_vars PROVE GInv'
  OBVIOUS
<1>1. ASSUME UNCHANGED toolVars PROVE GInv'
  BY <1>1 DEF toolVars, GInv, Shape, CallInv, Answers, Runs, Results, Denials, Kind, Reporters
<1>2. OpControlStep \/ UNCHANGED vars => UNCHANGED toolVars
  BY DEF OpControlStep, vars
<1>3. ASSUME NEW c \in Tracked, PassGate(c) PROVE GInv'
  BY <1>3, TrackedAssumption, PassGateKeeps
<1> QED
  BY <1>1, <1>2, <1>3, InvokeKeeps, CheckKeeps, ApprovalKeeps, TimeoutKeeps, RecordKeeps,
     ReturnKeeps, ThrowKeeps DEF Next

LEMMA GovernedInv == Spec => []GInv
PROOF
  BY InitGoverned, NextGoverned, PTL DEF Spec

-----------------------------------------------------------------------------
\* Whatever stands around a tool, it runs only on a yes of every layer that
\* came in time.
THEOREM ToolsRunIfPermitted == Spec => []RunsOnlyIfPermitted
PROOF
  BY GovernedInv, InvImplies, PTL

\* A denial of withAssembly is handed to the audit sink before it is thrown,
\* and nothing that happens later turns it into anything else.
THEOREM DenialsAreHanded == Spec => []DenialsAndOnlyDenialsAreHanded
PROOF
  BY GovernedInv, InvImplies, PTL

\* The caller of a governed tool is told what happened to it.
THEOREM OutcomesAreTrue == Spec => []OutcomeTellsRun
PROOF
  BY GovernedInv, InvImplies, PTL

-----------------------------------------------------------------------------
(* The gate of the calls is the op-control subscriber.                     *)

LEMMA LayersAreFew == Shape => \A c \in Calls : Len(layers[c]) <= Depth
PROOF
  BY StackingsAssumption DEF Shape

\* Layer i of call c asks op control, or leaves it alone.
LEMMA EnterOfGate ==
  ASSUME Shape, NEW c \in Calls, NEW i \in 1 .. Len(layers[c]), Enter(c, i)
  PROVE  [Op!Next]_Op!vars
PROOF
<1>1. Len(layers[c]) \in Nat /\ i \in 1 .. Depth
  BY LayersAreFew, DepthAssumption DEF Shape
<1>2. CASE c \in Tracked /\ Op!WaitForOp(<<c, i>>)
  <2>1. <<c, i>> \in Gates
    BY <1>1, <1>2 DEF Gates
  <2> QED
    BY <1>2, <2>1 DEF Op!Next
<1> QED
  BY <1>2 DEF Enter, Op!vars, opVars

LEMMA ProceedOfGate ==
  ASSUME Shape, NEW c \in Calls, Proceed(c) PROVE [Op!Next]_Op!vars
PROOF
<1>1. at[c] < Len(layers[c]) => at[c] + 1 \in 1 .. Len(layers[c])
  BY DEF Shape
<1> QED
  BY <1>1, EnterOfGate DEF Proceed, Op!vars, opVars

LEMMA StepsOfGate == Shape /\ [Next]_vars => [Op!Next]_Op!vars
PROOF
<1> SUFFICES ASSUME Shape, [Next]_vars PROVE [Op!Next]_Op!vars
  OBVIOUS
<1>1. UNCHANGED opVars => UNCHANGED Op!vars
  BY DEF opVars, Op!vars
<1>2. OpControlStep => Op!Next
  BY DEF OpControlStep, Op!Next
<1>3. ASSUME NEW c \in Calls, Invoke(c) PROVE [Op!Next]_Op!vars
  <2>1. 1 \in 1 .. Len(layers[c])
    BY DEF Shape
  <2> QED
    BY <1>3, <2>1, EnterOfGate DEF Invoke
<1>4. ASSUME NEW c \in Calls, NEW a \in CheckAnswers, CheckAnswered(c, a)
      PROVE  [Op!Next]_Op!vars
  BY <1>1, <1>4, ProceedOfGate DEF CheckAnswered
<1>5. ASSUME NEW c \in Calls, NEW a \in ApprovalAnswers, NEW i \in DOMAIN layers[c],
             ApprovalAnswered(c, i, a)
      PROVE  [Op!Next]_Op!vars
  BY <1>1, <1>5, ProceedOfGate DEF ApprovalAnswered
<1>6. ASSUME NEW c \in Calls,
             PassGate(c) \/ ApprovalTimeout(c) \/ ToolReturns(c) \/ ToolThrows(c)
               \/ \E f \in BOOLEAN : RecordSettled(c, f)
      PROVE  UNCHANGED opVars
  BY <1>6 DEF PassGate, ApprovalTimeout, ToolReturns, ToolThrows, RecordSettled
<1>7. UNCHANGED vars => UNCHANGED opVars
  BY DEF vars
<1> QED
  BY <1>1, <1>2, <1>3, <1>4, <1>5, <1>6, <1>7, TrackedAssumption DEF Next

\* Governed calls use the op-control subscriber as it promises: whatever they
\* do, their gate behaves as a subscriber whose waits have no timeout.
THEOREM GateIsOpControl == Spec => Op!Spec
PROOF
<1>1. Init => Op!Init
  BY DEF Init
<1>2. GInv => Shape
  BY DEF GInv
<1> QED
  BY <1>1, <1>2, StepsOfGate, GovernedInv, PTL DEF Spec, Op!Spec

-----------------------------------------------------------------------------
\* The subscriber behind the gate, with what is proved of it.
OCP == INSTANCE OpControlProofs WITH Calls <- Gates, OpOf <- GateOp, Timed <- {}

LEMMA GateAssumptions == OCP!OpOfAssumption /\ OCP!TimedAssumption
PROOF
  BY OpOfAssumption DEF OCP!OpOfAssumption, OCP!TimedAssumption, GateOp, Gates

LEMMA SameGate == [Op!Next]_Op!vars => [OCP!Next]_OCP!vars
PROOF
  BY DEF Op!OpenRealChannel, OCP!OpenRealChannel, Op!OpenRealChannelFails,
         OCP!OpenRealChannelFails, Op!Dispatch, OCP!Dispatch, Op!StreamError,
         OCP!StreamError, Op!StreamEnd, OCP!StreamEnd, Op!WaitForOp, OCP!WaitForOp,
         Op!TimerFires, OCP!TimerFires, Op!Continue, OCP!Continue, Op!Close, OCP!Close,
         Op!Next, OCP!Next, Op!vars, OCP!vars, Op!Signals, OCP!Signals, Op!Resolved,
         OCP!Resolved, Op!QueuedOn, OCP!QueuedOn, Op!FlushResolvers, OCP!FlushResolvers,
         Op!Flushes, OCP!Flushes, Op!PausedAfter, OCP!PausedAfter, Op!TerminatedAfter,
         OCP!TerminatedAfter, Op!MarkStreamDead, OCP!MarkStreamDead, Op!TimerOf,
         OCP!TimerOf, Op!TimedOut, OCP!TimedOut, Op!AfterWake, OCP!AfterWake, Op!slots,
         OCP!slots, Op!calls, OCP!calls

LEMMA InitGate == Init => OCP!IInv
PROOF
<1>1. Op!Init => OCP!Init
  BY DEF Op!Init, OCP!Init
<1> QED
  BY <1>1, GateAssumptions, OCP!InitInvariant DEF Init

LEMMA NextGate == Shape /\ OCP!IInv /\ [Next]_vars => OCP!IInv'
PROOF
  BY StepsOfGate, SameGate, GateAssumptions, OCP!NextInvariant

LEMMA GateHolds == Spec => []OCP!IInv
PROOF
<1>1. GInv => Shape
  BY DEF GInv
<1> QED
  BY <1>1, InitGate, NextGate, GovernedInv, PTL DEF Spec

\* The subscriber's promise reaches the tools: no governed call is left waiting
\* at its gate for an op that was resumed or terminated.
THEOREM NoCallMissesItsSignal == Spec => []Op!NoLostWakeup
PROOF
<1>1. OCP!IInv => Op!NoLostWakeup
  BY DEF OCP!IInv, OCP!NoLostWakeup, Op!NoLostWakeup
<1> QED
  BY <1>1, GateHolds, PTL

\* What TypeOK says beyond the gate's state and the invariant of the calls.
Layered ==
  /\ approval \in [Calls -> UNION {[1 .. n -> {"none", "asked", "answered"}] : n \in Nat}]
  /\ \A c \in Calls : approval[c] \in [1 .. Len(layers[c]) -> {"none", "asked", "answered"}]
  /\ \A e \in reported : e[2] \in DOMAIN layers[e[1]]

LEMMA InitLayered == Init => Layered
PROOF
<1> SUFFICES ASSUME Init PROVE Layered
  OBVIOUS
<1>1. ASSUME NEW c \in Calls
      PROVE  /\ approval[c] = [i \in 1 .. Len(layers[c]) |-> "none"]
             /\ Len(layers[c]) \in Nat
  BY InitGoverned DEF Init, GInv, Shape
<1>2. approval = [c \in Calls |-> approval[c]]
  BY DEF Init
<1>3. \A c \in Calls : approval[c] \in [1 .. Len(layers[c]) -> {"none", "asked", "answered"}]
  BY <1>1
<1> QED
  BY <1>1, <1>2, <1>3 DEF Init, Layered

LEMMA NextLayered == GInv /\ Layered /\ [Next]_vars => Layered'
PROOF
<1> SUFFICES ASSUME GInv, Layered, [Next]_vars PROVE Layered'
  OBVIOUS
<1>1. layers' = layers
  BY DEF Next, OpControlStep, Invoke, Enter, PassGate, CheckAnswered, ApprovalAnswered, Proceed,
         ApprovalTimeout, RecordSettled, ToolReturns, ToolThrows, toolVars, vars
<1>2. ASSUME UNCHANGED <<approval, reported>> PROVE Layered'
  BY <1>1, <1>2 DEF Layered
<1>3. ASSUME NEW c \in Calls, NEW i \in DOMAIN layers[c], NEW a \in {"asked", "answered"},
             approval' = [approval EXCEPT ![c][i] = a], UNCHANGED reported
      PROVE  Layered'
  <2>1. [approval[c] EXCEPT ![i] = a] \in [1 .. Len(layers[c]) -> {"none", "asked", "answered"}]
    BY DEF Layered
  <2>2. Len(layers[c]) \in Nat
    BY DEF GInv, Shape
  <2> QED
    BY <1>1, <1>3, <2>1, <2>2 DEF Layered
<1>4. ASSUME NEW c \in Calls, NEW a \in CheckAnswers, CheckAnswered(c, a)
      PROVE  Layered'
  <2>1. at[c] \in DOMAIN layers[c] /\ UNCHANGED reported
    BY <1>4 DEF GInv, Shape, CheckAnswered, Proceed, Enter
  <2> QED
    BY <1>2, <1>3, <1>4, <2>1 DEF CheckAnswered
<1>5. ASSUME NEW c \in Calls, NEW a \in ApprovalAnswers, NEW i \in DOMAIN layers[c],
             ApprovalAnswered(c, i, a)
      PROVE  Layered'
  <2>1. UNCHANGED reported
    BY <1>5 DEF ApprovalAnswered, Proceed, Enter
  <2> QED
    BY <1>3, <1>5, <2>1 DEF ApprovalAnswered
<1>6. ASSUME NEW c \in Calls, ToolReturns(c)
      PROVE  Layered'
  <2>1. \A e \in reported' : e \in reported \/ (e[1] = c /\ e[2] \in Reporters(c))
    BY <1>6 DEF ToolReturns
  <2> QED
    BY <1>1, <1>6, <2>1 DEF ToolReturns, Reporters, Layered
<1> QED
  BY <1>2, <1>4, <1>5, <1>6, TrackedAssumption
     DEF Next, OpControlStep, Invoke, Enter, PassGate, ApprovalTimeout, RecordSettled,
         ToolThrows, toolVars, vars

\* The state of the calls and of their gate stays well typed.
THEOREM GovernedTypeCorrect == Spec => []TypeOK
PROOF
<1>1. GInv /\ Layered /\ OCP!IInv => TypeOK
  <2> SUFFICES ASSUME GInv, Layered, OCP!IInv PROVE TypeOK
    OBVIOUS
  <2>1. Op!TypeOK
    BY DEF OCP!IInv, OCP!TypeOK, Op!TypeOK, OCP!Phases, Op!Phases
  <2>2. \A e \in handed : e[1] \in Calls /\ e[2] \in DOMAIN layers[e[1]]
    <3> SUFFICES ASSUME NEW e \in handed
                 PROVE  e[1] \in Calls /\ e[2] \in DOMAIN layers[e[1]]
      OBVIOUS
    <3>1. e[1] \in Calls /\ e[2] \in Nat /\ e = <<e[1], e[2]>>
      BY DEF GInv, Shape
    <3>2. e[2] = at[e[1]]
      BY <3>1 DEF GInv, CallInv, Denials
    <3> QED
      BY <3>1, <3>2 DEF GInv, Shape
  <2>3. \A e \in reported : e[1] \in Calls
    BY DEF GInv, Shape
  <2>4. layers \in Stackings /\ ran \subseteq Calls
    BY DEF GInv, Shape
  <2>5. ASSUME NEW c \in Calls
        PROVE  /\ at[c] \in 1 .. Len(layers[c])
               /\ stage[c] \in Stages
               /\ approval[c] \in [1 .. Len(layers[c]) -> {"none", "asked", "answered"}]
               /\ word[c] \in [1 .. Len(layers[c]) -> Words]
    BY DEF GInv, Shape, Layered
  <2>6. \A e \in handed \cup reported : e[1] \in Calls /\ e[2] \in DOMAIN layers[e[1]]
    BY <2>2, <2>3 DEF Layered
  <2> QED
    BY <2>1, <2>4, <2>5, <2>6 DEF TypeOK, Words
<1> QED
  BY <1>1, GovernedInv, InitLayered, NextLayered, GateHolds, PTL DEF Spec

-----------------------------------------------------------------------------
(* What the gates allow.                                                     *)

\* Gate i of call c when the call has got to layer a and stage s.
GateAt(c, i, a, s) ==
  /\ i < a => phase[<<c, i>>] = "returned"
  /\ i > a => phase[<<c, i>>] = "idle"
  /\ i = a /\ s = "idle" => phase[<<c, i>>] = "idle"
  /\ i = a /\ s = "gate" => phase[<<c, i>>] # "idle"
  /\ i = a /\ s \notin {"idle", "gate"} =>
       phase[<<c, i>>] = "returned" \/ (phase[<<c, i>>] = "threw" /\ s = "rejected")

\* A call has passed the gates of the layers it left, asked nothing of those to
\* come, and got past the one of its own layer only if it was let through there.
GatesHold == \A c \in Calls : \A i \in Gated[c] : GateAt(c, i, at[c], stage[c])

LEMMA GatedLayers ==
  ASSUME Shape, NEW c \in Calls, NEW i \in Gated[c]
  PROVE  /\ i \in Nat /\ <<c, i>> \in Gates /\ c \in Tracked
         /\ i \in 1 .. Len(layers[c]) /\ layers[c][i] = "withAssembly"
PROOF
<1>1. i \in DOMAIN layers[c] /\ layers[c][i] = "withAssembly" /\ c \in Tracked
  BY DEF Gated
<1>2. i \in 1 .. Len(layers[c]) /\ Len(layers[c]) \in Nat /\ Len(layers[c]) <= Depth
  BY <1>1, LayersAreFew DEF Shape
<1> QED
  BY <1>1, <1>2, DepthAssumption DEF Gates

LEMMA InitGatesHold == Init => GatesHold
PROOF
<1> SUFFICES ASSUME Init, NEW c \in Calls, NEW i \in Gated[c]
             PROVE  GateAt(c, i, at[c], stage[c])
  BY DEF GatesHold
<1>1. Shape
  BY InitGoverned DEF GInv
<1>2. <<c, i>> \in Gates /\ i \in 1 .. Len(layers[c]) /\ i \in Nat
  BY <1>1, GatedLayers
<1>3. at[c] = 1 /\ stage[c] = "idle" /\ phase[<<c, i>>] = "idle"
  BY <1>2 DEF Init, Op!Init
<1> QED
  BY <1>2, <1>3 DEF GateAt

\* Op control by itself releases a waiting call and settles a released one.
LEMMA OpControlMoves ==
  ASSUME OCP!IInv, OpControlStep, NEW g \in Gates
  PROVE  \/ phase'[g] = phase[g]
         \/ phase[g] = "blocked" /\ phase'[g] = "woken"
         \/ phase[g] = "woken" /\ phase'[g] \in {"returned", "threw"}
PROOF
<1>1. phase \in [Gates -> Op!Phases]
  BY DEF OCP!IInv, OCP!TypeOK, Op!Phases, OCP!Phases
<1>2. ASSUME NEW O, Op!FlushResolvers(O)
      PROVE  phase'[g] = phase[g] \/ (phase[g] = "blocked" /\ phase'[g] = "woken")
  BY <1>1, <1>2 DEF Op!FlushResolvers, Op!Resolved
<1>3. ASSUME NEW h \in Gates, Op!Continue(h)
      PROVE  \/ phase'[g] = phase[g]
             \/ phase[g] = "woken" /\ phase'[g] \in {"returned", "threw"}
  BY <1>1, <1>3 DEF Op!Continue, Op!AfterWake
<1>4. Op!OpenRealChannel => UNCHANGED phase
  BY DEF Op!OpenRealChannel, Op!calls
<1>5. Op!OpenRealChannelFails \/ Op!StreamError \/ Op!StreamEnd \/ Op!Close
        => Op!FlushResolvers(Ops)
  BY DEF Op!OpenRealChannelFails, Op!StreamError, Op!StreamEnd, Op!Close, Op!MarkStreamDead
<1>6. ASSUME NEW o \in Ops, NEW s \in Op!Signals, Op!Dispatch(o, s)
      PROVE  Op!FlushResolvers({o}) \/ UNCHANGED phase
  BY <1>6 DEF Op!Dispatch
<1> QED
  BY <1>2, <1>3, <1>4, <1>5, <1>6 DEF OpControlStep

\* Calls that stay where they are keep what their gates allowed them.
LEMMA StayingKeeps ==
  ASSUME Shape, UNCHANGED layers, NEW c \in Calls, at'[c] = at[c], stage'[c] = stage[c],
         \A i \in Gated[c] :
           \/ phase'[<<c, i>>] = phase[<<c, i>>]
           \/ phase[<<c, i>>] = "blocked" /\ phase'[<<c, i>>] = "woken"
           \/ phase[<<c, i>>] = "woken" /\ phase'[<<c, i>>] \in {"returned", "threw"},
         \A i \in Gated[c] : GateAt(c, i, at[c], stage[c])
  PROVE  (\A i \in Gated[c] : GateAt(c, i, at[c], stage[c]))'
PROOF
<1>1. Gated[c]' = Gated[c]
  BY DEF Gated
<1> SUFFICES ASSUME NEW i \in Gated[c] PROVE GateAt(c, i, at[c], stage[c])'
  BY <1>1
<1>2. GateAt(c, i, at[c], stage[c]) /\ i \in Nat /\ at[c] \in Nat
  BY GatedLayers DEF Shape
<1> QED
  BY <1>2 DEF GateAt

\* A step of call c that settles or asks no gate but its own: the others stay.
LEMMA OthersStay ==
  ASSUME Shape, GatesHold, NEW c \in Calls, Touches(c),
         \A g \in Gates : g[1] # c => phase'[g] = phase[g],
         (\A i \in Gated[c] : GateAt(c, i, at[c], stage[c]))'
  PROVE  GatesHold'
PROOF
<1> SUFFICES ASSUME NEW d \in Calls, d # c
             PROVE  (\A i \in Gated[d] : GateAt(d, i, at[d], stage[d]))'
  BY DEF GatesHold
<1>1. at'[d] = at[d] /\ stage'[d] = stage[d] /\ layers' = layers
  BY OthersUntouched DEF Untouched, Touches
<1>2. \A i \in Gated[d] : phase'[<<d, i>>] = phase[<<d, i>>]
  BY GatedLayers
<1>3. \A i \in Gated[d] : GateAt(d, i, at[d], stage[d])
  BY DEF GatesHold
<1> QED
  BY <1>1, <1>2, <1>3, StayingKeeps

\* Layer i of call c is entered from the layer before it, or first of all.
LEMMA EnterKeepsGates ==
  ASSUME Shape, OCP!IInv, GatesHold, NEW c \in Calls, NEW i \in 1 .. Len(layers[c]),
         Enter(c, i), Touches(c),
         \/ i = at[c] /\ stage[c] = "idle"
         \/ i = at[c] + 1 /\ stage[c] \in {"checking", "approving"}
  PROVE  GatesHold'
PROOF
<1>1. /\ at'[c] = i /\ at[c] \in Nat /\ i \in Nat /\ Gated[c]' = Gated[c]
      /\ stage \in [Calls -> Stages]
  BY DEF Enter, Shape, Gated
<1>2. phase \in [Gates -> Op!Phases]
  BY DEF OCP!IInv, OCP!TypeOK, Op!Phases, OCP!Phases
<1>3. \A j \in Gated[c] : GateAt(c, j, at[c], stage[c]) /\ j \in Nat /\ <<c, j>> \in Gates
  BY GatedLayers DEF GatesHold
<1>4. CASE layers[c][i] = "withAssembly" /\ c \in Tracked
  <2>1. stage'[c] = "gate" /\ Op!WaitForOp(<<c, i>>)
    BY <1>1, <1>4 DEF Enter
  <2>2. \E p \in {"threw", "returned", "blocked"} : phase' = [phase EXCEPT ![<<c, i>>] = p]
    BY <2>1 DEF Op!WaitForOp
  <2>3. i \in Gated[c] /\ <<c, i>> \in Gates
    BY <1>3, <1>4 DEF Gated, Shape
  <2>4. /\ phase'[<<c, i>>] \in {"threw", "returned", "blocked"}
        /\ \A g \in Gates : g # <<c, i>> => phase'[g] = phase[g]
    BY <1>2, <2>2, <2>3
  <2>5. ASSUME NEW j \in Gated[c] PROVE GateAt(c, j, at[c], stage[c])'
    BY <1>1, <1>3, <2>1, <2>4 DEF GateAt
  <2> QED
    BY <1>1, <2>4, <2>5, OthersStay
<1>5. CASE ~(layers[c][i] = "withAssembly" /\ c \in Tracked)
  <2>1. stage'[c] = "checking" /\ phase' = phase
    BY <1>1, <1>5 DEF Enter, opVars
  <2>2. i \notin Gated[c]
    BY <1>5 DEF Gated
  <2>3. ASSUME NEW j \in Gated[c] PROVE GateAt(c, j, at[c], stage[c])'
    BY <1>1, <1>3, <2>1, <2>2 DEF GateAt
  <2> QED
    BY <1>1, <2>1, <2>3, OthersStay
<1> QED
  BY <1>4, <1>5

\* A call that is past its gate goes on in its layer.
LEMMA MovingKeepsGates ==
  ASSUME Shape, GatesHold, NEW c \in Calls, Touches(c), UNCHANGED <<at, phase>>,
         stage[c] \notin {"idle", "gate", "rejected"}, stage'[c] \notin {"idle", "gate"}
  PROVE  GatesHold'
PROOF
<1>1. layers' = layers /\ at'[c] = at[c] /\ at[c] \in Nat /\ Gated[c]' = Gated[c]
  BY DEF Touches, Shape, Gated
<1>2. ASSUME NEW i \in Gated[c] PROVE GateAt(c, i, at[c], stage[c])'
  <2>1. GateAt(c, i, at[c], stage[c]) /\ i \in Nat
    BY GatedLayers DEF GatesHold
  <2> QED
    BY <1>1, <2>1 DEF GateAt
<1> QED
  BY <1>1, <1>2, OthersStay

LEMMA PassGateKeepsGates ==
  ASSUME GInv, GatesHold, NEW c \in Calls, PassGate(c), Touches(c)
  PROVE  GatesHold'
PROOF
<1>1. /\ Shape /\ UNCHANGED <<layers, at, phase>> /\ at[c] \in Nat /\ Gated[c]' = Gated[c]
      /\ stage[c] = "gate" /\ stage'[c] = AfterGate(c) /\ phase[<<c, at[c]>>] \in {"returned", "threw"}
  BY DEF GInv, Shape, PassGate, opVars, Gated, Gate
<1>2. ASSUME NEW i \in Gated[c] PROVE GateAt(c, i, at[c], stage[c])'
  <2>1. GateAt(c, i, at[c], stage[c]) /\ i \in Nat
    BY <1>1, GatedLayers DEF GatesHold
  <2>2. CASE i = at[c]
    <3>1. \/ stage'[c] = "rejected" /\ phase'[<<c, i>>] = "threw"
          \/ stage'[c] = "checking" /\ phase'[<<c, i>>] = "returned"
      BY <1>1, <2>2 DEF AfterGate, Gate
    <3> QED
      BY <1>1, <2>1, <2>2, <3>1 DEF GateAt
  <2>3. CASE i # at[c]
    BY <1>1, <2>1, <2>3 DEF GateAt
  <2> QED
    BY <2>2, <2>3
<1> QED
  BY <1>1, <1>2, OthersStay

LEMMA ProceedKeepsGates ==
  ASSUME GInv, OCP!IInv, GatesHold, NEW c \in Calls, NEW w, Decides(c, w), Proceed(c), Touches(c)
  PROVE  GatesHold'
PROOF
<1>1. Shape /\ stage[c] \in {"checking", "approving"} /\ stage \in [Calls -> Stages]
  BY DEF GInv, Shape, Decides
<1>2. CASE at[c] < Len(layers[c]) /\ Enter(c, at[c] + 1)
  <2>1. at[c] + 1 \in 1 .. Len(layers[c])
    BY <1>1, <1>2 DEF Shape
  <2> QED
    BY <1>1, <1>2, <2>1, EnterKeepsGates
<1>3. CASE UNCHANGED <<opVars, at>> /\ stage' = [stage EXCEPT ![c] = "running"]
  <2>1. stage'[c] = "running" /\ UNCHANGED phase
    BY <1>1, <1>3 DEF opVars
  <2> QED
    BY <1>1, <1>3, <2>1, MovingKeepsGates
<1> QED
  BY <1>2, <1>3 DEF Proceed

LEMMA NextGatesHold == GInv /\ OCP!IInv /\ GatesHold /\ [Next]_vars => GatesHold'
PROOF
<1> SUFFICES ASSUME GInv, OCP!IInv, GatesHold, [Next]_vars PROVE GatesHold'
  OBVIOUS
<1>1. Shape /\ stage \in [Calls -> Stages]
  BY DEF GInv, Shape
<1>2. CASE OpControlStep
  <2>1. UNCHANGED <<layers, at, stage>>
    BY <1>2 DEF OpControlStep, toolVars
  <2>2. ASSUME NEW c \in Calls
        PROVE  (\A i \in Gated[c] : GateAt(c, i, at[c], stage[c]))'
    <3>1. ASSUME NEW i \in Gated[c]
          PROVE  \/ phase'[<<c, i>>] = phase[<<c, i>>]
                 \/ phase[<<c, i>>] = "blocked" /\ phase'[<<c, i>>] = "woken"
                 \/ phase[<<c, i>>] = "woken" /\ phase'[<<c, i>>] \in {"returned", "threw"}
      BY <1>1, <1>2, GatedLayers, OpControlMoves
    <3> QED
      BY <1>1, <2>1, <3>1, StayingKeeps DEF GatesHold
  <2> QED
    BY <2>2 DEF GatesHold
<1>3. ASSUME UNCHANGED <<phase, layers, at, stage>> PROVE GatesHold'
  <2>1. Gated' = Gated
    BY <1>3 DEF Gated
  <2> QED
    BY <1>3, <2>1 DEF GatesHold, GateAt
<1>4. ASSUME NEW c \in Calls, Invoke(c) PROVE GatesHold'
  <2>1. /\ at[c] = 1 /\ stage[c] = "idle" /\ Enter(c, 1) /\ 1 \in 1 .. Len(layers[c])
    BY <1>4 DEF Invoke, GInv, Shape, CallInv, Answers
  <2> QED
    BY <1>1, <1>4, <2>1, InvokeKeeps, EnterKeepsGates
<1>5. ASSUME NEW c \in Tracked, PassGate(c) PROVE GatesHold'
  BY <1>5, TrackedAssumption, PassGateKeeps, PassGateKeepsGates
<1>6. ASSUME NEW c \in Calls, Denies(c), UNCHANGED <<opVars, at>>, Touches(c),
             stage[c] \in {"checking", "approving"}
      PROVE  GatesHold'
  <2>1. stage'[c] \in {"recording", "denialOutput", "rejected"}
    BY <1>1, <1>6 DEF Denies, Refusal, Kind, Kinds, Shape
  <2> QED
    BY <1>1, <1>6, <2>1, MovingKeepsGates DEF opVars
<1>7. ASSUME NEW c \in Calls, NEW a \in CheckAnswers, CheckAnswered(c, a) PROVE GatesHold'
  <2>1. Touches(c) /\ Decides(c, a) /\ stage[c] = "checking"
    BY <1>7, CheckKeeps DEF CheckAnswered, Decides
  <2>2. CASE Proceed(c)
    BY <2>1, <2>2, ProceedKeepsGates
  <2>3. CASE Denies(c) /\ UNCHANGED <<opVars, at>>
    BY <1>6, <2>1, <2>3
  <2>4. CASE /\ \E s \in {"approving", "failed"} : stage' = [stage EXCEPT ![c] = s]
             /\ UNCHANGED <<opVars, at>>
    BY <1>1, <2>1, <2>4, MovingKeepsGates DEF opVars
  <2> QED
    BY <1>7, <2>2, <2>3, <2>4 DEF CheckAnswered
<1>8. ASSUME NEW c \in Calls, NEW a \in ApprovalAnswers, NEW i \in DOMAIN layers[c],
             ApprovalAnswered(c, i, a)
      PROVE  GatesHold'
  <2>1. Touches(c)
    BY <1>8, ApprovalKeeps
  <2>2. CASE RaceOpen(c, i) /\ word' = [word EXCEPT ![c][i] = a]
    <3>1. Decides(c, a) /\ stage[c] = "approving"
      BY <2>2 DEF RaceOpen, Decides
    <3>2. CASE Proceed(c)
      BY <2>1, <3>1, <3>2, ProceedKeepsGates
    <3>3. CASE Denies(c) /\ UNCHANGED <<opVars, at>>
      BY <1>6, <2>1, <3>1, <3>3
    <3>4. CASE stage' = [stage EXCEPT ![c] = "failed"] /\ UNCHANGED <<opVars, at>>
      BY <1>1, <2>1, <3>1, <3>4, MovingKeepsGates DEF opVars
    <3> QED
      BY <1>8, <2>2, <3>2, <3>3, <3>4 DEF ApprovalAnswered
  <2>3. CASE UNCHANGED <<opVars, layers, at, stage>>
    BY <1>3, <2>3 DEF opVars
  <2> QED
    BY <1>8, <2>2, <2>3 DEF ApprovalAnswered
<1>9. ASSUME NEW c \in Calls, ApprovalTimeout(c) PROVE GatesHold'
  BY <1>6, <1>9, TimeoutKeeps DEF ApprovalTimeout, TimeoutArmed, AfterTimeout
<1>10. ASSUME NEW c \in Calls, NEW f \in BOOLEAN, RecordSettled(c, f) PROVE GatesHold'
  <2>1. stage[c] = "recording" /\ stage'[c] = "rejected" /\ UNCHANGED <<at, phase>>
    BY <1>1, <1>10 DEF RecordSettled, AfterRecord, opVars
  <2> QED
    BY <1>1, <1>10, <2>1, RecordKeeps, MovingKeepsGates
<1>11. ASSUME NEW c \in Calls, ToolReturns(c) \/ ToolThrows(c) PROVE GatesHold'
  <2>1. stage[c] = "running" /\ stage'[c] \in {"returned", "failed"} /\ UNCHANGED <<at, phase>>
    BY <1>1, <1>11 DEF ToolReturns, ToolThrows, opVars
  <2> QED
    BY <1>1, <1>11, <2>1, ReturnKeeps, ThrowKeeps, MovingKeepsGates
<1> QED
  BY <1>2, <1>3, <1>4, <1>5, <1>7, <1>8, <1>9, <1>10, <1>11
     DEF Next, vars, opVars, toolVars

LEMMA GatesInvariant == Spec => []GatesHold
PROOF
  BY InitGatesHold, NextGatesHold, GovernedInv, GateHolds, PTL DEF Spec

-----------------------------------------------------------------------------
(* The calls do what governance promises.                                    *)

\* A step of call c shows, to who governs, in the consents and the fate of c.
LEMMA SeenOfCall ==
  ASSUME Shape, NEW c \in Calls, Touches(c)
  PROVE  /\ UNCHANGED <<Around, Gated>>
         /\ Consented' = [Consented EXCEPT ![c] = Consented[c]']
         /\ Fate' = [Fate EXCEPT ![c] = FateOf(c)']
PROOF
<1>1. layers' = layers
  BY DEF Touches
<1>2. ASSUME NEW d \in Calls, d # c PROVE Consented[d]' = Consented[d] /\ FateOf(d)' = FateOf(d)
  <2>1. /\ word'[d] = word[d] /\ stage'[d] = stage[d] /\ (d \in ran' <=> d \in ran)
    BY <1>2, OthersUntouched DEF Untouched
  <2> QED
    BY <1>1, <2>1 DEF Consented, FateOf
<1>3. Consented' = [Consented EXCEPT ![c] = Consented[c]']
  BY <1>2 DEF Consented
<1>4. Fate' = [Fate EXCEPT ![c] = FateOf(c)']
  BY <1>2 DEF Fate
<1> QED
  BY <1>1, <1>3, <1>4 DEF Around, Gated

\* A step in which nobody consents ends the call or shows nothing.
LEMMA EndsOrStutters ==
  ASSUME Shape, NEW c \in Calls, Touches(c), Consented[c]' = Consented[c]
  PROVE  \/ FateOf(c)' = FateOf(c) /\ UNCHANGED Promised!callVars
         \/ Promised!Ends(c, FateOf(c), FateOf(c)')
PROOF
<1>1. /\ UNCHANGED <<Around, Gated>>
      /\ Consented' = [Consented EXCEPT ![c] = Consented[c]]
      /\ Fate' = [Fate EXCEPT ![c] = FateOf(c)'] /\ Fate[c] = FateOf(c)
  BY SeenOfCall DEF Fate
<1>2. Consented' = Consented
  BY <1>1 DEF Consented
<1>3. CASE FateOf(c)' = FateOf(c)
  <2>1. Fate' = Fate
    BY <1>1, <1>3 DEF Fate
  <2> QED
    BY <1>1, <1>2, <1>3, <2>1 DEF Promised!callVars
<1>4. CASE FateOf(c)' # FateOf(c)
  BY <1>1, <1>2 DEF Promised!Ends
<1> QED
  BY <1>3, <1>4

\* What a layer says that is no yes leaves the consents as they are.
LEMMA NoConsent ==
  ASSUME GInv, NEW c \in Calls, NEW w, w \notin Permits, Decides(c, w), layers' = layers
  PROVE  Consented[c]' = Consented[c]
PROOF
<1>1. /\ Shape /\ Answers(c) /\ word' = [word EXCEPT ![c][at[c]] = w]
      /\ stage[c] \in {"checking", "approving"}
  BY DEF GInv, CallInv, Decides
<1>2. word[c][at[c]] \notin Permits
  BY <1>1 DEF Answers, Permits
<1>3. ASSUME NEW i \in 1 .. Len(layers[c])
      PROVE  word'[c][i] \in Permits <=> word[c][i] \in Permits
  BY <1>1, <1>2, NewWord
<1>4. DOMAIN layers[c] = 1 .. Len(layers[c])
  BY <1>1 DEF Shape
<1> QED
  BY <1>3, <1>4 DEF Consented

\* A yes is the consent of the layer the call has got to.
LEMMA YesConsents ==
  ASSUME GInv, GatesHold, NEW c \in Calls, NEW w \in Permits, Decides(c, w), Proceed(c), Touches(c)
  PROVE  Promised!CallStep(c)
PROOF
<1>1. /\ Shape /\ Answers(c) /\ word' = [word EXCEPT ![c][at[c]] = w]
      /\ stage[c] \in {"checking", "approving"} /\ layers' = layers /\ Len(layers[c]) \in Nat
      /\ DOMAIN layers[c] = 1 .. Len(layers[c]) /\ at[c] \in 1 .. Len(layers[c])
      /\ stage \in [Calls -> Stages]
  BY DEF GInv, CallInv, Decides, Touches, Shape
<1>2. Fate[c] = "open"
  BY <1>1 DEF Fate, FateOf
<1>3. /\ word[c][at[c]] \notin Permits /\ word'[c][at[c]] \in Permits
      /\ \A i \in 1 .. Len(layers[c]) : i # at[c] => word'[c][i] = word[c][i]
  BY <1>1, NewWord DEF Answers, Permits
<1>4. Consented[c]' = Consented[c] \cup {at[c]}
  BY <1>1, <1>3 DEF Consented
<1>5. at[c] \in Around[c] \ Consented[c]
  BY <1>1, <1>3 DEF Around, Consented
<1>6. at[c] \in Gated[c] => Op!Outcome[<<c, at[c]>>] = "passed"
  <2> SUFFICES ASSUME at[c] \in Gated[c] PROVE Op!Outcome[<<c, at[c]>>] = "passed"
    OBVIOUS
  <2>1. GateAt(c, at[c], at[c], stage[c]) /\ <<c, at[c]>> \in Gates
    BY <1>1, GatedLayers DEF GatesHold
  <2>2. phase[<<c, at[c]>>] = "returned"
    BY <1>1, <2>1 DEF GateAt
  <2> QED
    BY <2>1, <2>2 DEF Op!Outcome
<1>7. FateOf(c)' = IF Around[c] = Consented[c] \cup {at[c]} THEN "running" ELSE "open"
  <2>1. CASE at[c] < Len(layers[c]) /\ Enter(c, at[c] + 1)
    <3>1. at[c] + 1 \in Around[c] /\ at[c] + 1 \notin Consented[c] \cup {at[c]}
      BY <1>1, <2>1 DEF Around, Consented, Answers, Permits
    <3>2. stage'[c] \in {"gate", "checking"}
      BY <1>1, <2>1 DEF Enter
    <3> QED
      BY <3>1, <3>2 DEF FateOf
  <2>2. CASE at[c] = Len(layers[c]) /\ stage' = [stage EXCEPT ![c] = "running"]
    <3>1. Around[c] = Consented[c] \cup {at[c]}
      BY <1>1, <2>2 DEF Around, Consented, Answers
    <3>2. stage'[c] = "running"
      BY <1>1, <2>2
    <3> QED
      BY <3>1, <3>2 DEF FateOf
  <2> QED
    BY <2>1, <2>2 DEF Proceed
<1>8. at[c] \in Promised!Layers
  BY <1>1, LayersAreFew, DepthAssumption DEF Promised!Layers
<1>9. Promised!Consent(c, at[c])
  BY <1>1, <1>2, <1>4, <1>5, <1>6, <1>7, SeenOfCall DEF Promised!Consent
<1> QED
  BY <1>8, <1>9 DEF Promised!CallStep

\* The fates a step may lead to without a consent.
Endings == {<<"open", "refused">>, <<"open", "broken">>, <<"running", "returned">>, <<"running", "threw">>}

LEMMA CallEnds ==
  ASSUME GInv, NEW c \in Calls, Touches(c), Consented[c]' = Consented[c],
         FateOf(c)' = FateOf(c) \/ <<FateOf(c), FateOf(c)'>> \in Endings
  PROVE  UNCHANGED Promised!callVars \/ Promised!CallStep(c)
PROOF
<1>1. CASE UNCHANGED Promised!callVars
  BY <1>1
<1>2. CASE Promised!Ends(c, FateOf(c), FateOf(c)') /\ <<FateOf(c), FateOf(c)'>> \in Endings
  BY <1>2 DEF Endings, Promised!CallStep
<1>3. CASE FateOf(c)' = FateOf(c) /\ ~UNCHANGED Promised!callVars
  <2>1. Promised!Ends(c, FateOf(c), FateOf(c)') /\ Shape
    BY <1>3, EndsOrStutters DEF GInv
  <2>2. UNCHANGED <<Around, Gated>> /\ Consented' = Consented /\ Fate' = Fate
    BY <1>3, <2>1, SeenOfCall DEF Promised!Ends, Fate
  <2> QED
    BY <1>3, <2>2 DEF Promised!callVars
<1> QED
  BY <1>1, <1>2, <1>3, EndsOrStutters DEF GInv

\* A call that asks no gate and answers nothing keeps its consents.
LEMMA SilentKeeps ==
  ASSUME NEW c \in Calls, UNCHANGED <<layers, word>>
  PROVE  Consented[c]' = Consented[c]
PROOF
  BY DEF Consented

LEMMA DeniesEnds ==
  ASSUME GInv, NEW c \in Calls, NEW w, w \notin Permits, Decides(c, w), Denies(c), Touches(c)
  PROVE  UNCHANGED Promised!callVars \/ Promised!CallStep(c)
PROOF
<1>1. stage \in [Calls -> Stages] /\ Kind(c) \in Kinds /\ layers' = layers
  BY DEF GInv, Shape, Kind, Touches
<1>2. stage'[c] \in {"recording", "denialOutput", "rejected"}
  BY <1>1 DEF Denies, Refusal, Kinds
<1>3. FateOf(c) = "open" /\ FateOf(c)' = "refused"
  BY <1>2 DEF Decides, FateOf
<1> QED
  BY <1>1, <1>3, NoConsent, CallEnds DEF Endings

LEMMA HaltEnds ==
  ASSUME GInv, NEW c \in Calls, NEW w, w \notin Permits, Decides(c, w), Touches(c),
         NEW s \in {"approving", "failed"}, stage' = [stage EXCEPT ![c] = s], UNCHANGED ran
  PROVE  UNCHANGED Promised!callVars \/ Promised!CallStep(c)
PROOF
<1>1. stage \in [Calls -> Stages] /\ layers' = layers /\ Runs(c)
  BY DEF GInv, Shape, CallInv, Touches
<1>2. stage'[c] = s /\ c \notin ran
  BY <1>1 DEF Decides, Runs
<1>3. FateOf(c) = "open" /\ FateOf(c)' \in {"open", "broken"}
  BY <1>2 DEF Decides, FateOf
<1> QED
  BY <1>1, <1>3, NoConsent, CallEnds DEF Endings

LEMMA CallsAsPromised ==
  GInv /\ GatesHold /\ [Next]_vars =>
    UNCHANGED Promised!callVars \/ \E c \in Calls : Promised!CallStep(c)
PROOF
<1> DEFINE Goal == UNCHANGED Promised!callVars \/ \E c \in Calls : Promised!CallStep(c)
<1> SUFFICES ASSUME GInv, GatesHold, [Next]_vars PROVE Goal
  OBVIOUS
<1>1. stage \in [Calls -> Stages] /\ Shape
  BY DEF GInv, Shape
<1>2. ASSUME UNCHANGED <<layers, stage, word, ran>> PROVE Goal
  <2>1. UNCHANGED <<Around, Gated, Consented, Fate>>
    BY <1>2 DEF Around, Gated, Consented, Fate, FateOf
  <2> QED
    BY <2>1 DEF Promised!callVars
<1>3. ASSUME NEW c \in Calls, Invoke(c) PROVE Goal
  <2>1. UNCHANGED <<layers, word>> /\ stage[c] = "idle" /\ stage'[c] \in {"gate", "checking"}
    BY <1>1, <1>3 DEF Invoke, Enter
  <2>2. FateOf(c)' = FateOf(c)
    BY <2>1 DEF FateOf
  <2> QED
    BY <1>3, <2>1, <2>2, InvokeKeeps, SilentKeeps, CallEnds
<1>4. ASSUME NEW c \in Calls, PassGate(c) PROVE Goal
  <2>1. UNCHANGED <<layers, word>> /\ stage[c] = "gate" /\ stage'[c] \in {"checking", "rejected"}
    BY <1>1, <1>4 DEF PassGate, AfterGate
  <2>2. FateOf(c) = "open" /\ FateOf(c)' \in {"open", "refused"}
    BY <2>1 DEF FateOf
  <2> QED
    BY <1>4, <2>1, <2>2, PassGateKeeps, SilentKeeps, CallEnds DEF Endings
<1>5. ASSUME NEW c \in Calls, NEW a \in CheckAnswers, CheckAnswered(c, a) PROVE Goal
  <2>1. Touches(c) /\ Decides(c, a)
    BY <1>5, CheckKeeps DEF CheckAnswered, Decides
  <2>2. CASE a = "allow" /\ Proceed(c)
    BY <2>1, <2>2, YesConsents DEF Permits
  <2>3. CASE a = "denied" /\ Denies(c)
    BY <2>1, <2>3, DeniesEnds DEF Permits
  <2>4. CASE a \in {"pending", "throws"} /\ UNCHANGED ran
             /\ \E s \in {"approving", "failed"} : stage' = [stage EXCEPT ![c] = s]
    BY <2>1, <2>4, HaltEnds DEF Permits
  <2> QED
    BY <1>5, <2>2, <2>3, <2>4 DEF CheckAnswered
<1>6. ASSUME NEW c \in Calls, NEW a \in ApprovalAnswers, NEW i \in DOMAIN layers[c],
             ApprovalAnswered(c, i, a)
      PROVE  Goal
  <2>1. CASE RaceOpen(c, i) /\ word' = [word EXCEPT ![c][i] = a]
    <3>1. Touches(c) /\ Decides(c, a)
      BY <1>6, <2>1, ApprovalKeeps DEF RaceOpen, Decides
    <3>2. CASE a = "approved" /\ Proceed(c)
      BY <3>1, <3>2, YesConsents DEF Permits
    <3>3. CASE a = "refused" /\ Denies(c)
      BY <3>1, <3>3, DeniesEnds DEF Permits
    <3>4. CASE a = "throws" /\ UNCHANGED ran /\ stage' = [stage EXCEPT ![c] = "failed"]
      BY <3>1, <3>4, HaltEnds DEF Permits
    <3> QED
      BY <1>6, <2>1, <3>2, <3>3, <3>4 DEF ApprovalAnswered
  <2>2. CASE UNCHANGED <<layers, stage, word, ran>>
    BY <1>2, <2>2
  <2> QED
    BY <1>6, <2>1, <2>2 DEF ApprovalAnswered
<1>7. ASSUME NEW c \in Calls, ApprovalTimeout(c) PROVE Goal
  <2>1. Touches(c) /\ Decides(c, "timeout") /\ Denies(c)
    BY <1>7, TimeoutKeeps DEF ApprovalTimeout, TimeoutArmed, AfterTimeout, Decides
  <2> QED
    BY <2>1, DeniesEnds DEF Permits
<1>8. ASSUME NEW c \in Calls, NEW f \in BOOLEAN, RecordSettled(c, f) PROVE Goal
  <2>1. UNCHANGED <<layers, word>> /\ stage[c] = "recording" /\ stage'[c] = "rejected"
    BY <1>1, <1>8 DEF RecordSettled, AfterRecord
  <2>2. FateOf(c)' = FateOf(c)
    BY <2>1 DEF FateOf
  <2> QED
    BY <1>8, <2>1, <2>2, RecordKeeps, SilentKeeps, CallEnds
<1>9. ASSUME NEW c \in Calls, ToolReturns(c) \/ ToolThrows(c) PROVE Goal
  <2>1. /\ UNCHANGED <<layers, word, ran>> /\ stage[c] = "running" /\ c \in ran
        /\ stage'[c] \in {"returned", "failed"}
    BY <1>1, <1>9 DEF ToolReturns, ToolThrows, GInv, CallInv, Runs
  <2>2. FateOf(c) = "running" /\ FateOf(c)' \in {"returned", "threw"}
    BY <2>1 DEF FateOf
  <2> QED
    BY <1>9, <2>1, <2>2, ReturnKeeps, ThrowKeeps, SilentKeeps, CallEnds DEF Endings
<1> HIDE DEF Goal
<1> QED
  BY <1>2, <1>3, <1>4, <1>5, <1>6, <1>7, <1>8, <1>9, TrackedAssumption
     DEF Next, OpControlStep, vars, toolVars

\* The kill switch the calls are promised is the one op control implements.
LEMMA SameSwitch ==
  [OCP!Switch!Next]_OCP!Switch!vars => [Promised!Switch!Next]_Promised!Switch!vars
PROOF
<1>1. OCP!Outcome = Op!Outcome /\ OCP!Outcome' = Op!Outcome'
  BY DEF OCP!Outcome, Op!Outcome
<1>2. Promised!Gates = Gates /\ [g \in Promised!Gates |-> OpOf[g[1]]] = GateOp
  BY DEF Promised!Gates, Promised!Layers, Gates, GateOp
<1>3. ASSUME NEW o \in Ops, OCP!Switch!Kill(o) PROVE Promised!Switch!Kill(o)
  BY <1>1, <1>3 DEF OCP!Switch!Kill, Promised!Switch!Kill
<1>4. ASSUME NEW g \in Gates, OCP!Switch!Ask(g) PROVE Promised!Switch!Ask(g)
  BY <1>1, <1>2, <1>4 DEF OCP!Switch!Ask, Promised!Switch!Ask
<1>5. ASSUME NEW g \in Gates, OCP!Switch!Pass(g) PROVE Promised!Switch!Pass(g)
  BY <1>1, <1>2, <1>5 DEF OCP!Switch!Pass, Promised!Switch!Pass
<1>6. ASSUME NEW g \in Gates, OCP!Switch!Reject(g) PROVE Promised!Switch!Reject(g)
  BY <1>1, <1>2, <1>6 DEF OCP!Switch!Reject, Promised!Switch!Reject
<1>7. UNCHANGED OCP!Switch!vars => UNCHANGED Promised!Switch!vars
  BY <1>1 DEF OCP!Switch!vars, Promised!Switch!vars
<1> QED
  BY <1>2, <1>3, <1>4, <1>5, <1>6, <1>7 DEF OCP!Switch!Next, Promised!Switch!Next

LEMMA SwitchAsPromised ==
  Shape /\ OCP!IInv /\ [Next]_vars => [Promised!Switch!Next]_Promised!Switch!vars
PROOF
  BY StepsOfGate, SameGate, SameSwitch, GateAssumptions, OCP!StepRefines

LEMMA InitAsPromised == Init => Promised!Init
PROOF
<1> SUFFICES ASSUME Init PROVE Promised!Init
  OBVIOUS
<1>1. Shape
  BY InitGoverned DEF GInv
<1>2. Promised!Gates = Gates
  BY DEF Promised!Gates, Promised!Layers, Gates
<1>3. Promised!Switch!Init
  BY <1>2 DEF Init, Op!Init, Op!Outcome, Promised!Switch!Init
<1>4. ASSUME NEW c \in Calls
      PROVE  /\ Around[c] \in (SUBSET Promised!Layers) \ {{}}
             /\ Gated[c] \subseteq Around[c] /\ (c \notin Tracked => Gated[c] = {})
             /\ Consented[c] = {} /\ Fate[c] = "open"
  <2>1. /\ DOMAIN layers[c] = 1 .. Len(layers[c]) /\ Len(layers[c]) \in Nat
        /\ Len(layers[c]) <= Depth /\ 1 \in 1 .. Len(layers[c])
    BY <1>1, LayersAreFew DEF Init, Shape
  <2>2. Around[c] \in (SUBSET Promised!Layers) \ {{}}
    BY <2>1, DepthAssumption DEF Around, Promised!Layers
  <2>3. Consented[c] = {}
    BY <2>1 DEF Init, Consented, Permits
  <2> QED
    BY <2>2, <2>3 DEF Init, Around, Gated, Fate, FateOf
<1>5. Around \in [Calls -> (SUBSET Promised!Layers) \ {{}}]
  BY <1>4 DEF Around
<1>6. Gated \in [Calls -> SUBSET Promised!Layers]
  BY <1>4 DEF Gated
<1>7. Consented = [c \in Calls |-> {}] /\ Fate = [c \in Calls |-> "open"]
  BY <1>4 DEF Consented, Fate
<1> QED
  BY <1>3, <1>4, <1>5, <1>6, <1>7 DEF Promised!Init

LEMMA StepAsPromised ==
  GInv /\ OCP!IInv /\ GatesHold /\ [Next]_vars => [Promised!Next]_Promised!vars
PROOF
  BY CallsAsPromised, SwitchAsPromised DEF GInv, Promised!Next, Promised!vars

\* Governed tools keep the promise of governance, however many layers of whatever
\* kind stand around them: no order of signals, answers, timers and failures starts
\* a tool without every consent, after a refusal, or past a gate whose op was killed.
THEOREM WrappersGovern == Spec => GovernanceHolds
PROOF
  BY InitAsPromised, StepAsPromised, GovernedInv, GateHolds, GatesInvariant, PTL
     DEF Spec, GovernanceHolds, Promised!Spec

\* The gate decides: a call that is past a gate was let through there, and one
\* that op control rejected goes no further than its rejection.
THEOREM GatesDecide == Spec => []GatesHold
PROOF
  BY GatesInvariant

-----------------------------------------------------------------------------
(* How long a pause holds a call.                                            *)

\* While the op-control stream lives, a call that waits on a paused op goes on
\* only when that op is resumed or terminated: enforceOpControl's comment holds
\* up to the death of the stream (see PauseHoldsCall).
PauseHoldsWhileAlive ==
  [][\A g \in Gates :
       phase[g] = "blocked" /\ phase'[g] # "blocked" /\ alive'
         => ~paused'[GateOp[g]] \/ terminated'[GateOp[g]]]_vars

LEMMA GateOrphans == Spec => []OCP!OrphanInv
PROOF
<1>1. Init => OCP!OrphanInv
  BY DEF Init, Op!Init, OCP!OrphanInv
<1>2. Shape /\ OCP!IInv /\ OCP!OrphanInv /\ [Next]_vars => OCP!OrphanInv'
  BY StepsOfGate, SameGate, GateAssumptions, OCP!NextOrphan
<1>3. GInv => Shape
  BY DEF GInv
<1> QED
  BY <1>1, <1>2, <1>3, GovernedInv, GateHolds, PTL DEF Spec

\* Nobody but op control itself moves a blocked call, and only to wake it.
LEMMA BlockedIsWoken ==
  ASSUME Shape, OCP!IInv, [Next]_vars, NEW g \in Gates, phase[g] = "blocked", phase'[g] # "blocked"
  PROVE  phase'[g] = "woken"
PROOF
<1>1. [OCP!Next]_OCP!vars
  BY StepsOfGate, SameGate
<1>2. phase \in [Gates -> OCP!Phases]
  BY DEF OCP!IInv, OCP!TypeOK
<1>3. ASSUME NEW O, OCP!FlushResolvers(O) PROVE phase'[g] = "woken"
  BY <1>3 DEF OCP!FlushResolvers, OCP!Resolved
<1>4. ~UNCHANGED phase
  OBVIOUS
<1>5. ASSUME NEW h \in Gates, OCP!WaitForOp(h) \/ OCP!Continue(h) PROVE FALSE
  BY <1>2, <1>5 DEF OCP!WaitForOp, OCP!Continue
<1>6. ASSUME NEW h \in Gates, OCP!TimerFires(h) PROVE phase'[g] = "woken"
  BY <1>6 DEF OCP!TimerFires, OCP!Resolved
<1>7. ASSUME NEW o \in Ops, NEW s \in OCP!Signals, OCP!Dispatch(o, s) PROVE phase'[g] = "woken"
  BY <1>3, <1>4, <1>7 DEF OCP!Dispatch
<1> QED
  BY <1>1, <1>3, <1>4, <1>5, <1>6, <1>7
     DEF OCP!Next, OCP!vars, OCP!OpenRealChannel, OCP!OpenRealChannelFails, OCP!StreamError,
         OCP!StreamEnd, OCP!Close, OCP!MarkStreamDead, OCP!calls

\* A pause holds every governed call until its op is resumed or terminated, as
\* long as the stream that would say so is alive.
THEOREM PausesHoldWhileStreamLives == Spec => PauseHoldsWhileAlive
PROOF
<1>1. Shape /\ OCP!IInv /\ OCP!OrphanInv /\ [Next]_vars =>
        [\A g \in Gates :
           phase[g] = "blocked" /\ phase'[g] # "blocked" /\ alive'
             => ~paused'[GateOp[g]] \/ terminated'[GateOp[g]]]_vars
  <2> SUFFICES ASSUME Shape, OCP!IInv, OCP!OrphanInv, [Next]_vars, NEW g \in Gates,
                      phase[g] = "blocked", phase'[g] # "blocked", alive'
               PROVE  ~paused'[GateOp[g]] \/ terminated'[GateOp[g]]
    OBVIOUS
  <2>1. phase'[g] = "woken" /\ [OCP!Next]_OCP!vars
    BY BlockedIsWoken, StepsOfGate, SameGate
  <2>2. timer[g] # "armed"
    BY DEF OCP!OrphanInv
  <2> QED
    BY <2>1, <2>2, GateAssumptions, OCP!StepHasCause
<1>2. GInv => Shape
  BY DEF GInv
<1> QED
  BY <1>1, <1>2, GovernedInv, GateHolds, GateOrphans, PTL DEF Spec, PauseHoldsWhileAlive
=============================================================================
