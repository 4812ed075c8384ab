------------------------ MODULE RccContainer_proofs -------------------------
(***************************************************************************)
(* Theorems about RccContainer, for any number of workers and calls.  They *)
(* rest on what each method of a worker, each use of a port and each       *)
(* result of run can do to the record of the worker (the lemmas of the     *)
(* first part), and on who holds which mutex.                              *)
(***************************************************************************)
EXTENDS RccContainer, TLAPS

-----------------------------------------------------------------------------
(* What may happen to the record of a worker. *)

\* A result for the worker r: its record, of which alive is the same.
Of(r) == {o \in [w : Record, threw : BOOLEAN] : o.w.alive = r.alive}

\* A worker is enabled exactly when it is operating.
Good(r) == r.enabled <=> r.m_state = "OPERATING"

\* A worker that was released is neither enabled nor in use.
Gone(r) == r.phase = "released" => r.m_state \in {"UNUSABLE", "EXISTS"} /\ ~ r.enabled

\* The control state agrees with what the worker was told last.
InPhase(r) ==
  /\ ~ r.misused
  /\ r.enabled => r.m_state = "OPERATING"
  /\ r.m_state = "EXISTS" => r.phase \in {"new", "failed", "released"}
  /\ r.m_state = "INITIALIZED" => r.phase = "initialized"
  /\ r.m_state \in {"OPERATING", "FINISHED"} => r.phase = "started"
  /\ r.m_state = "SUSPENDED" => r.phase = "stopped"

\* What a use of a port can do: nothing, or it disables the worker, and makes
\* it unusable unless an exception leaves portError.
PortUse(r, p) ==
  /\ p \in Of(r)
  /\ ~ PortErrors => p.w = r /\ ~ p.threw
  /\ p.w = r \/ ~ p.w.enabled
  /\ p.w = r \/ p.threw \/ p.w.m_state = "UNUSABLE"
  /\ r.m_state # "OPERATING" => p.w.m_state # "OPERATING"
  /\ Gone(r) => Gone(p.w)

\* controlOperation leaves a record of a worker, whatever the method returns.
LEMMA ReturnedType ==
  ASSUME NEW r \in Record, NEW op \in ControlOp, NEW rc \in Results
  PROVE  /\ Returned(r, op, rc) \in Of(r)
         /\ Returned(r, op, rc).threw <=> rc # "ok"
<1> USE ResultAssumption DEF Of, Record, ControlState
<1>1. Effect(r, op) \in Record /\ Effect(r, op).alive = r.alive
  BY Zenon DEF Effect
<1> DEFINE e == CASE rc = "ok" \/ op = "release" -> Effect(r, op)
                  [] rc # "ok" /\ op = "initialize" -> [r EXCEPT !.phase = "failed"]
                  [] OTHER -> r
<1>2. e \in Record /\ e.alive = r.alive
  BY <1>1
<1> HIDE DEF e
<1> DEFINE f == CASE rc = "fatal" -> [e EXCEPT !.enabled = FALSE, !.m_state = "UNUSABLE"]
                  [] rc = "invalid" -> [e EXCEPT !.enabled = FALSE]
                  [] OTHER -> e
<1>3. f \in Record /\ f.alive = r.alive
  BY Zenon, <1>2
<1>4. Returned(r, op, rc) = [w |-> f, threw |-> rc # "ok"]
  BY DEF Returned, e
<1>5. (rc # "ok") = (IF rc = "ok" THEN FALSE ELSE TRUE)
  BY Zenon
<1> HIDE DEF f
<1>6. Returned(r, op, rc) = [w |-> f, threw |-> IF rc = "ok" THEN FALSE ELSE TRUE]
  BY Zenon, <1>4, <1>5
<1>7. QED BY <1>3, <1>6

\* What the method has done, before a result of it is dealt with.
Before(r, op, rc) ==
  IF rc = "ok" \/ op = "release" THEN Effect(r, op)
  ELSE IF op = "initialize" THEN [r EXCEPT !.phase = "failed"] ELSE r

\* The fields of what controlOperation leaves.
LEMMA ReturnedFields ==
  ASSUME NEW r \in Record, NEW op \in ControlOp, NEW rc \in Results
  PROVE  LET q == Returned(r, op, rc)
             x == Before(r, op, rc)
         IN /\ q.w \in Record /\ q.w.phase = x.phase /\ q.w.misused = x.misused
            /\ rc \in {"ok", "error"} => q.w.m_state = x.m_state /\ q.w.enabled = x.enabled
            /\ rc = "invalid" => q.w.m_state = x.m_state /\ ~ q.w.enabled
            /\ rc = "fatal" => q.w.m_state = "UNUSABLE" /\ ~ q.w.enabled
            /\ rc \in {"ok", "error", "fatal", "invalid"}
<1> DEFINE x == Before(r, op, rc)
<1>1. x \in Record
  BY Zenon DEF Before, Effect, Record, ControlState
<1>2. rc \in {"ok", "error", "fatal", "invalid"}
  BY ResultAssumption
<1>3. Returned(r, op, rc).w =
        CASE rc = "fatal" -> [x EXCEPT !.enabled = FALSE, !.m_state = "UNUSABLE"]
          [] rc = "invalid" -> [x EXCEPT !.enabled = FALSE]
          [] OTHER -> x
  BY Zenon DEF Returned, Before
<1> HIDE DEF x
<1>4. QED BY Zenon, <1>1, <1>2, <1>3 DEF x, Record, ControlState

\* Calling a method changes nothing but what is known of its misuse.
LEMMA CalledType ==
  ASSUME NEW r \in Record, NEW m
  PROVE  /\ Called(r, m) \in Record
         /\ Called(r, m).alive = r.alive
         /\ Called(r, m).enabled = r.enabled
         /\ Called(r, m).m_state = r.m_state
         /\ Called(r, m).phase = r.phase
         /\ r.phase \in Expects(m) => Called(r, m) = r
<1>1. (r.misused \/ r.phase \notin Expects(m)) \in BOOLEAN
  OBVIOUS
<1>2. PICK b \in BOOLEAN : b = (r.misused \/ r.phase \notin Expects(m))
  BY Zenon, <1>1
<1>3. Called(r, m) = [r EXCEPT !.misused = b]
  BY <1>2 DEF Called, Record
<1>4. r.phase \in Expects(m) => b = r.misused
  BY <1>2 DEF Record
<1>5. QED BY <1>3, <1>4 DEF Record

\* Release makes the worker unusable, whatever it returns.
LEMMA ReleaseFacts ==
  ASSUME NEW r \in Record, NEW rc \in Results
  PROVE  LET q == ControlOperation(r, "release", rc) IN
         /\ q \in Of(r) /\ (q.threw <=> rc # "ok")
         /\ q.w.m_state = "UNUSABLE" /\ ~ q.w.enabled /\ q.w.phase = "released"
         /\ q.w.misused = Called(r, "release").misused
<1> DEFINE c == Called(r, "release")
<1>1. c \in Record /\ c.alive = r.alive
  BY CalledType
<1>2. Returned(c, "release", rc) \in Of(r) /\ (Returned(c, "release", rc).threw <=> rc # "ok")
  BY <1>1, ReturnedType DEF ControlOp, Of
<1> HIDE DEF c
<1>3. LET q == Returned(c, "release", rc) IN
      /\ q.w.m_state = "UNUSABLE" /\ ~ q.w.enabled /\ q.w.phase = "released"
      /\ q.w.misused = c.misused
  BY <1>1, ResultAssumption DEF Returned, Effect, Record
<1>4. QED BY <1>2, <1>3 DEF ControlOperation, c

\* Stop suspends the worker if it succeeds, and leaves it as it was or
\* unusable if not.
LEMMA StopFacts ==
  ASSUME NEW r \in Record, NEW rc \in Results
  PROVE  LET q == ControlOperation(r, "stop", rc) IN
         /\ q \in Of(r) /\ (q.threw <=> rc # "ok")
         /\ q.w.misused = Called(r, "stop").misused
         /\ rc = "ok" => q.w.m_state = "SUSPENDED" /\ ~ q.w.enabled /\ q.w.phase = "stopped"
         /\ rc # "ok" => q.w.phase = r.phase
         /\ rc = "error" => q.w.m_state = r.m_state /\ q.w.enabled = r.enabled
         /\ rc = "invalid" => q.w.m_state = r.m_state /\ ~ q.w.enabled
         /\ rc = "fatal" => q.w.m_state = "UNUSABLE" /\ ~ q.w.enabled
<1> DEFINE c == Called(r, "stop")
<1>1. /\ c \in Record /\ c.alive = r.alive /\ c.phase = r.phase
      /\ c.m_state = r.m_state /\ c.enabled = r.enabled
  BY CalledType
<1>2. Returned(c, "stop", rc) \in Of(r) /\ (Returned(c, "stop", rc).threw <=> rc # "ok")
  BY <1>1, ReturnedType DEF ControlOp, Of
<1> HIDE DEF c
<1>3. LET q == Returned(c, "stop", rc) IN
      /\ q.w.misused = c.misused
      /\ rc = "ok" => q.w.m_state = "SUSPENDED" /\ ~ q.w.enabled /\ q.w.phase = "stopped"
      /\ rc # "ok" => q.w.phase = c.phase
      /\ rc = "error" => q.w.m_state = c.m_state /\ q.w.enabled = c.enabled
      /\ rc = "invalid" => q.w.m_state = c.m_state /\ ~ q.w.enabled
      /\ rc = "fatal" => q.w.m_state = "UNUSABLE" /\ ~ q.w.enabled
  BY Zenon, <1>1, ResultAssumption DEF Returned, Effect, Record
<1>4. QED BY <1>1, <1>2, <1>3 DEF ControlOperation, c

\* What is left when a worker is disabled, stopped and released.
LEMMA StopAndReleaseFacts ==
  ASSUME NEW r \in Record, NEW a \in Results, NEW b \in Results
  PROVE  LET p == StopAndRelease(r, a, b) IN
         /\ p \in Of(r) /\ ~ p.w.enabled
         /\ \/ p.threw /\ p.w.phase = r.phase /\ p.w.m_state \in {r.m_state, "UNUSABLE"}
            \/ p.w.phase = "released" /\ p.w.m_state = "UNUSABLE"
<1> DEFINE d == [r EXCEPT !.enabled = FALSE]
           p == StopAndRelease(r, a, b)
<1>1. /\ d \in Record /\ d.alive = r.alive /\ d.phase = r.phase
      /\ d.m_state = r.m_state /\ ~ d.enabled
  BY Zenon DEF Record
<1> DEFINE s == ControlOperation(d, "stop", a)
<1>2. p = IF s.threw THEN s ELSE ControlOperation(s.w, "release", b)
  BY DEF StopAndRelease
<1> HIDE DEF d, p
<1>3. /\ s \in Of(d) /\ (s.threw <=> a # "ok")
      /\ a # "ok" => /\ s.w.phase = d.phase /\ ~ s.w.enabled
                     /\ s.w.m_state \in {d.m_state, "UNUSABLE"}
  <2>1. a \in {"ok", "error", "fatal", "invalid"}
    BY ResultAssumption
  <2>2. QED BY <1>1, <2>1, StopFacts
<1> HIDE DEF s
<1>4. CASE a # "ok"
  <2>1. p = s
    BY <1>2, <1>3, <1>4
  <2>2. QED BY <2>1, <1>1, <1>3, <1>4 DEF Of, p
<1>5. CASE a = "ok"
  <2>1. p = ControlOperation(s.w, "release", b)
    BY <1>2, <1>3, <1>5
  <2>2. s.w \in Record /\ s.w.alive = r.alive
    BY <1>1, <1>3 DEF Of
  <2>3. /\ p \in Of(s.w) /\ p.w.m_state = "UNUSABLE" /\ ~ p.w.enabled
        /\ p.w.phase = "released"
    BY <2>1, <2>2, ReleaseFacts
  <2>4. QED BY <2>2, <2>3 DEF Of, p
<1>6. QED BY <1>4, <1>5

\* A port that fails disables the worker.
LEMMA PortFacts ==
  ASSUME NEW r \in Record, NEW p \in UsePort(r)
  PROVE  PortUse(r, p)
<1>1. CASE p = [w |-> r, threw |-> FALSE]
  BY <1>1 DEF PortUse, Of
<1>2. CASE PortErrors /\ p \in PortError(r)
  <2>1. PICK a \in Results, b \in Results : p = StopAndRelease(r, a, b)
    BY <1>2 DEF PortError
  <2>2. /\ p \in Of(r) /\ ~ p.w.enabled
        /\ \/ p.threw /\ p.w.phase = r.phase /\ p.w.m_state \in {r.m_state, "UNUSABLE"}
           \/ p.w.phase = "released" /\ p.w.m_state = "UNUSABLE"
    BY <2>1, StopAndReleaseFacts
  <2>3. QED BY <1>2, <2>2 DEF PortUse, Gone
<1>3. QED BY <1>1, <1>2 DEF UsePort

\* Ports that are used one after the other.
LEMMA PortThenPort ==
  ASSUME NEW r \in Record, NEW p, NEW q, PortUse(r, p), ~ p.threw, PortUse(p.w, q)
  PROVE  PortUse(r, q)
BY DEF PortUse, Of

\* getReadyPorts and advanceAll do no more than single ports do.
LEMMA PortsFacts ==
  ASSUME NEW r \in Record, NEW p \in UsePorts(r)
  PROVE  PortUse(r, p)
<1>1. PICK q \in UsePort(r) : p \in IF q.threw THEN {q} ELSE UsePort(q.w)
  BY DEF UsePorts
<1>2. PortUse(r, q) /\ q.w \in Record
  BY PortFacts DEF PortUse, Of
<1>3. CASE q.threw
  BY <1>1, <1>2, <1>3
<1>4. CASE ~ q.threw
  <2>1. PortUse(q.w, p)
    BY <1>1, <1>2, <1>4, PortFacts
  <2>2. QED BY <1>2, <1>4, <2>1, PortThenPort
<1>5. QED BY <1>3, <1>4

-----------------------------------------------------------------------------
(* The records that an enabled worker, and a control operation, may leave. *)

\* advanceAll may release a worker that is then marked as finished.
Lossy == PortErrors /\ "advance_done" \in RunResults

Sound(r) == (~ Lossy => Gone(r)) /\ (~ PortErrors => InPhase(r))
Fit(r) == "invalid" \notin Results => Good(r)

\* A use of a port keeps a record as it should be; only an exception of
\* portError leaves a worker that is OPERATING and not enabled.
LEMMA PortSound ==
  ASSUME NEW r \in Record, NEW p, PortUse(r, p), Sound(r), Fit(r)
  PROVE  /\ p \in Of(r) /\ p.w \in Record /\ Sound(p.w)
         /\ ~ p.threw \/ r.m_state # "OPERATING" => Fit(p.w)
<1>1. p \in Of(r) /\ p.w \in Record
  BY DEF PortUse, Of
<1>2. Sound(p.w)
  BY DEF PortUse, Sound, Lossy
<1>3. ASSUME ~ p.threw \/ r.m_state # "OPERATING" PROVE Fit(p.w)
  BY <1>1, <1>3 DEF PortUse, Fit, Good, Record
<1>4. QED BY <1>1, <1>2, <1>3

\* A worker that is running: enabled still, or unusable by a port.
Running(r) ==
  /\ r \in Record /\ Sound(r) /\ Fit(r)
  /\ r.enabled \/ r.m_state = "UNUSABLE"
  /\ ~ PortErrors => r.enabled

\* What the run of a worker may lead to.
RunOutcome(r, o) == o \in Of(r) /\ Sound(o.w) /\ (~ o.threw => Fit(o.w))

\* A port that a running worker uses leaves it running, or throws.
LEMMA RunningPort ==
  ASSUME NEW r, Running(r), NEW p, PortUse(r, p)
  PROVE  RunOutcome(r, p) /\ (~ p.threw => Running(p.w))
<1>1. r \in Record /\ Sound(r) /\ Fit(r)
  BY DEF Running
<1>2. p \in Of(r) /\ p.w \in Record /\ Sound(p.w) /\ (~ p.threw => Fit(p.w))
  BY <1>1, PortSound
<1>3. ~ p.threw => (p.w.enabled \/ p.w.m_state = "UNUSABLE") /\ (~ PortErrors => p.w.enabled)
  BY DEF PortUse, Running
<1>4. QED BY <1>2, <1>3 DEF RunOutcome, Running

\* A running worker expects its run method.
LEMMA RunningCalled ==
  ASSUME NEW r, Running(r)
  PROVE  Running(Called(r, "run")) /\ Called(r, "run").alive = r.alive
<1> DEFINE c == Called(r, "run")
<1>1. r \in Record
  BY DEF Running
<1>2. /\ c \in Record /\ c.alive = r.alive /\ c.enabled = r.enabled
      /\ c.m_state = r.m_state /\ c.phase = r.phase
      /\ r.phase \in Expects("run") => c = r
  BY <1>1, CalledType
<1>3. ASSUME ~ PortErrors PROVE c = r
  <2>1. r.phase = "started"
    BY <1>3 DEF Running, Sound, InPhase
  <2>2. QED BY <1>2, <2>1 DEF Expects
<1> HIDE DEF c
<1>4. Sound(c) /\ Fit(c)
  BY <1>2, <1>3 DEF Running, Sound, Gone, Fit, Good
<1>5. QED BY <1>2, <1>4 DEF Running, c

\* A running worker may be marked as finished.
LEMMA RunningFinished ==
  ASSUME NEW r, Running(r), r.m_state # "UNUSABLE"
  PROVE  RunOutcome(r, [w |-> Finished(r), threw |-> FALSE])
<1>1. r \in Record /\ r.enabled
  BY DEF Running
<1>2. Finished(r) \in Record /\ Finished(r).alive = r.alive
  BY Zenon, <1>1 DEF Finished, Record, ControlState
<1>3. Sound(Finished(r)) /\ Fit(Finished(r))
  BY <1>1, <1>2 DEF Running, Sound, Fit, Good, Gone, InPhase, Finished, Record
<1>4. QED BY <1>2, <1>3 DEF RunOutcome, Of

\* A running worker may be made unusable.
LEMMA RunningFailed ==
  ASSUME NEW r, Running(r)
  PROVE  RunOutcome(r, [w |-> Failed(r), threw |-> FALSE])
<1>1. r \in Record
  BY DEF Running
<1>2. Failed(r) \in Record /\ Failed(r).alive = r.alive
  BY Zenon, <1>1 DEF Failed, Record, ControlState
<1>3. Sound(Failed(r)) /\ Fit(Failed(r))
  BY <1>1, <1>2 DEF Running, Sound, Fit, Good, Gone, InPhase, Failed, Record
<1>4. QED BY <1>2, <1>3 DEF RunOutcome, Of

\* The results of run: what follows them finds the worker as it should be.
LEMMA AdvancedFacts ==
  ASSUME NEW r, Running(r), NEW rc \in RunResults, NEW o \in Advanced(r, rc)
  PROVE  RunOutcome(r, o)
<1>1. r \in Record /\ Sound(r) /\ Fit(r)
  BY DEF Running
<1>2. \A b \in BOOLEAN : RunOutcome(r, [w |-> r, threw |-> b])
  BY <1>1 DEF RunOutcome, Of
<1>3. CASE rc = "errorString"
  BY Zenon, <1>2, <1>3 DEF Advanced
<1>4. CASE rc = "ok" \/ (rc # "errorString" /\ r.m_state = "UNUSABLE")
  <2>1. o = [w |-> r, threw |-> FALSE]
    BY <1>4 DEF Advanced
  <2>2. QED BY Zenon, <1>2, <2>1
<1>5. CASE rc = "advance" /\ r.m_state # "UNUSABLE"
  <2>1. o \in UsePorts(r)
    BY <1>5 DEF Advanced
  <2>2. QED BY <1>1, <2>1, PortsFacts, RunningPort
<1>6. CASE rc = "advance_done" /\ r.m_state # "UNUSABLE"
  <2>1. PICK p \in UsePorts(r) : o = IF p.threw THEN p ELSE [p EXCEPT !.w = Finished(@)]
    BY <1>6 DEF Advanced
  <2>2. PortUse(r, p)
    BY <1>1, PortsFacts
  <2>3. RunOutcome(r, p) /\ (~ p.threw => Running(p.w))
    BY <2>2, RunningPort
  <2>4. CASE p.threw
    BY <2>1, <2>3, <2>4
  <2>5. CASE ~ p.threw /\ p.w.m_state # "UNUSABLE"
    <3>1. RunOutcome(p.w, [w |-> Finished(p.w), threw |-> FALSE])
      BY <2>3, <2>5, RunningFinished
    <3>2. o = [w |-> Finished(p.w), threw |-> FALSE] /\ p.w.alive = r.alive
      BY Zenon, <2>1, <2>3, <2>5 DEF RunOutcome, Of
    <3>3. QED BY <3>1, <3>2 DEF RunOutcome, Of
  <2>6. CASE ~ p.threw /\ p.w.m_state = "UNUSABLE"
    <3>1. PortErrors
      BY <1>6, <2>2, <2>6 DEF PortUse
    <3>2. Lossy
      BY <1>6, <3>1 DEF Lossy
    <3>3. o = [w |-> Finished(p.w), threw |-> FALSE] /\ p.w.alive = r.alive /\ p.w \in Record
      BY Zenon, <2>1, <2>3, <2>6 DEF RunOutcome, Of
    <3>4. Finished(p.w) \in Record /\ Finished(p.w).alive = r.alive /\ Fit(Finished(p.w))
      BY Zenon, <3>3 DEF Finished, Record, ControlState, Fit, Good
    <3>5. QED BY <3>1, <3>2, <3>3, <3>4 DEF RunOutcome, Of, Sound
  <2>7. QED BY <2>4, <2>5, <2>6
<1>7. CASE rc = "done" /\ r.m_state # "UNUSABLE"
  BY <1>7, RunningFinished DEF Advanced
<1>8. CASE rc = "fatal" /\ r.m_state # "UNUSABLE"
  BY <1>8, RunningFailed DEF Advanced
<1>9. QED BY <1>3, <1>4, <1>5, <1>6, <1>7, <1>8, ResultAssumption

\* A run method, from the poll of the ports to what follows its result.
LEMMA RanFacts ==
  ASSUME NEW r, Running(r), NEW k, NEW o \in Ran(r, k)
  PROVE  RunOutcome(r, o)
<1> DEFINE c == Called(r, "run")
<1>1. Running(c) /\ c.alive = r.alive /\ c \in Record
  BY RunningCalled DEF Running
<1>2. PICK p \in UsePort(c) :
        o \in IF p.threw THEN {p} ELSE UNION {Advanced(p.w, rc) : rc \in ResultsOf(k)}
  BY DEF Ran
<1> HIDE DEF c
<1>3. RunOutcome(c, p) /\ (~ p.threw => Running(p.w))
  BY <1>1, PortFacts, RunningPort
<1>4. CASE p.threw
  BY <1>1, <1>2, <1>3, <1>4 DEF RunOutcome, Of
<1>5. CASE ~ p.threw
  <2>1. PICK rc \in RunResults : o \in Advanced(p.w, rc)
    BY <1>2, <1>5 DEF ResultsOf
  <2>2. RunOutcome(p.w, o)
    BY <1>3, <1>5, <2>1, AdvancedFacts
  <2>3. QED BY <1>1, <1>3, <2>2 DEF RunOutcome, Of
<1>6. QED BY <1>4, <1>5

\* A port callback, from the use of ports to its failure.
LEMMA CalledBackFacts ==
  ASSUME NEW r, Running(r), NEW o \in CalledBack(r)
  PROVE  RunOutcome(r, o)
<1> DEFINE c == Called(r, "run")
<1>1. Running(c) /\ c.alive = r.alive /\ c \in Record
  BY RunningCalled DEF Running
<1>2. PICK p \in UsePort(c) :
        o \in IF p.threw THEN {p} ELSE {p, [p EXCEPT !.w = Failed(@)]}
  BY DEF CalledBack
<1> HIDE DEF c
<1>3. RunOutcome(c, p) /\ (~ p.threw => Running(p.w))
  BY <1>1, PortFacts, RunningPort
<1>4. CASE o = p
  BY <1>1, <1>3, <1>4 DEF RunOutcome, Of
<1>5. CASE ~ p.threw /\ o = [p EXCEPT !.w = Failed(@)]
  <2>1. o = [w |-> Failed(p.w), threw |-> FALSE] /\ p.w.alive = c.alive
    BY Zenon, <1>3, <1>5 DEF RunOutcome, Of
  <2>2. RunOutcome(p.w, [w |-> Failed(p.w), threw |-> FALSE])
    BY <1>3, <1>5, RunningFailed
  <2>3. QED BY <1>1, <2>1, <2>2 DEF RunOutcome, Of
<1>6. QED BY <1>2, <1>4, <1>5

\* A control operation is right in the record it leaves when it throws, and
\* in the one it leaves together with setControlState when it succeeds.
ControlOutcome(r, op, o) ==
  /\ o \in Of(r)
  /\ LET e == IF o.threw THEN o.w ELSE SetState(o.w, op)
     IN Sound(e) /\ Fit(e)

\* The method, for a worker whose record allows it: the operations but start.
LEMMA MethodFacts ==
  ASSUME NEW r \in Record, Sound(r), Fit(r), NEW op \in ControlOp \ {"start"},
         r.m_state \in ValidIn[op], ~ PortErrors /\ op = "initialize" => r.phase = "new",
         NEW rc \in Results
  PROVE  ControlOutcome(r, op, ControlOperation(r, op, rc))
<1> DEFINE c == Called(r, op)
<1>1. /\ c \in Record /\ c.alive = r.alive /\ c.enabled = r.enabled
      /\ c.m_state = r.m_state /\ c.phase = r.phase
      /\ r.phase \in Expects(op) => c = r
  BY CalledType
<1>2. ASSUME ~ PortErrors PROVE c = r
  <2>1. r.phase \in Expects(op)
    BY <1>2 DEF Expects, ControlOp, ValidIn, Sound, InPhase
  <2>2. QED BY <1>1, <2>1
<1> HIDE DEF c
<1>3. /\ Returned(c, op, rc) \in Of(r) /\ (Returned(c, op, rc).threw <=> rc # "ok")
  BY <1>1, ReturnedType DEF Of
<1>4. Sound(c) /\ Fit(c) /\ c.m_state \in ValidIn[op]
  BY <1>1, <1>2 DEF Sound, Gone, Fit, Good
<1> DEFINE q == Returned(c, op, rc)
           e == IF q.threw THEN q.w ELSE SetState(q.w, op)
<1>5. Sound(e) /\ Fit(e)
  <2> DEFINE x == Before(c, op, rc)
  <2>1. /\ q.w \in Record /\ q.w.phase = x.phase /\ q.w.misused = x.misused
        /\ rc \in {"ok", "error"} => q.w.m_state = x.m_state /\ q.w.enabled = x.enabled
        /\ rc = "invalid" => q.w.m_state = x.m_state /\ ~ q.w.enabled
        /\ rc = "fatal" => q.w.m_state = "UNUSABLE" /\ ~ q.w.enabled
        /\ rc \in {"ok", "error", "fatal", "invalid"}
    BY <1>1, ReturnedFields
  <2>2. ~ q.threw <=> rc = "ok"
    BY <1>3
  <2> HIDE DEF q
  <2>3. CASE op = "initialize"
    <3>1. /\ x.phase = (IF rc = "ok" THEN "initialized" ELSE "failed")
          /\ x.misused = c.misused /\ x.m_state = c.m_state /\ x.enabled = c.enabled
      BY <1>1, <2>3 DEF Before, Effect, Record
    <3> HIDE DEF x
    <3>2. c.m_state = "EXISTS"
      BY <1>4, <2>3 DEF ValidIn
    <3>3. SetState(q.w, op) = [q.w EXCEPT !.m_state = "INITIALIZED"]
      BY <2>3 DEF SetState, NextState
    <3>4. QED BY <1>4, <2>1, <2>2, <3>1, <3>2, <3>3 DEF Sound, Gone, InPhase, Fit, Good, Record
  <2>4. CASE op = "stop"
    <3>1. /\ x.misused = c.misused
          /\ rc = "ok" => x.phase = "stopped" /\ ~ x.enabled
          /\ rc # "ok" => x = c
      BY Zenon, <1>1, <2>4 DEF Before, Effect, Record
    <3> HIDE DEF x
    <3>2. SetState(q.w, op) = [q.w EXCEPT !.m_state = "SUSPENDED"]
      BY <2>4 DEF SetState, NextState
    <3>3. QED BY <1>4, <2>1, <2>2, <3>1, <3>2 DEF Sound, Gone, InPhase, Fit, Good, Record
  <2>5. CASE op = "release"
    <3>1. /\ x.misused = c.misused /\ x.phase = "released"
          /\ ~ x.enabled /\ x.m_state = "UNUSABLE"
      BY Zenon, <1>1, <2>5 DEF Before, Effect, Record
    <3> HIDE DEF x
    <3>2. SetState(q.w, op) = [q.w EXCEPT !.m_state = "EXISTS"]
      BY <2>5 DEF SetState, NextState
    <3>3. QED BY <1>4, <2>1, <2>2, <3>1, <3>2 DEF Sound, Gone, InPhase, Fit, Good, Record
  <2>6. CASE op \in {"beforeQuery", "afterConfigure", "test"}
    <3>1. x = c
      BY <2>6 DEF Before, Effect
    <3> HIDE DEF x
    <3>2. SetState(q.w, op) = q.w
      BY <2>6 DEF SetState, NextState
    <3>3. QED BY <1>4, <2>1, <2>2, <3>1, <3>2 DEF Sound, Gone, InPhase, Fit, Good, Record
  <2>7. QED BY <2>3, <2>4, <2>5, <2>6 DEF ControlOp
<1>6. QED BY <1>3, <1>5 DEF ControlOutcome, ControlOperation, c

\* start, which may use ports.
LEMMA StartFacts ==
  ASSUME NEW r \in Record, Sound(r), Fit(r), r.m_state \in ValidIn["start"],
         NEW o \in Outcomes(r, "start")
  PROVE  ControlOutcome(r, "start", o)
<1> DEFINE c == Called(r, "start")
<1>1. /\ c \in Record /\ c.alive = r.alive /\ c.enabled = r.enabled
      /\ c.m_state = r.m_state /\ c.phase = r.phase
      /\ r.phase \in Expects("start") => c = r
  BY CalledType
<1>2. r.m_state \in {"SUSPENDED", "INITIALIZED"}
  BY DEF ValidIn
<1>3. ASSUME ~ PortErrors PROVE c = r
  <2>1. r.phase \in Expects("start")
    BY <1>2, <1>3 DEF Expects, Sound, InPhase
  <2>2. QED BY <1>1, <2>1
<1>4. CASE o = [w |-> r, threw |-> TRUE]
  BY <1>4 DEF ControlOutcome, Of
<1>5. ASSUME NEW p \in UsePort(c),
             o \in IF p.threw THEN {p} ELSE {Returned(p.w, "start", rc) : rc \in Results}
      PROVE  ControlOutcome(r, "start", o)
  <2> HIDE DEF c
  <2>1. Sound(c) /\ Fit(c)
    BY <1>1, <1>3 DEF Sound, Gone, Fit, Good
  <2>2. PortUse(c, p)
    BY <1>1, PortFacts
  <2>3. p \in Of(c) /\ p.w \in Record /\ Sound(p.w) /\ Fit(p.w)
    BY <1>1, <1>2, <2>1, <2>2, PortSound
  <2>4. CASE p.threw
    BY <1>1, <1>5, <2>3, <2>4 DEF ControlOutcome, Of
  <2>5. CASE ~ p.threw
    <3>1. PICK rc \in Results : o = Returned(p.w, "start", rc)
      BY <1>5, <2>5
    <3>2. o \in Of(p.w) /\ (o.threw <=> rc # "ok")
      BY <2>3, <3>1, ReturnedType DEF ControlOp
    <3>3. o \in Of(r) /\ (o.threw <=> rc # "ok")
      BY <1>1, <2>3, <3>2 DEF Of
    <3> DEFINE e == IF o.threw THEN o.w ELSE SetState(o.w, "start")
    <3>4. Sound(e) /\ Fit(e)
      BY <2>3, <3>1, <3>2, ResultAssumption
         DEF Returned, Effect, SetState, NextState, Sound, Gone, InPhase, Fit, Good, Record
    <3>5. QED BY <3>3, <3>4 DEF ControlOutcome
  <2>6. QED BY <2>4, <2>5
<1>6. QED BY <1>4, <1>5 DEF Outcomes

\* controlOperation, for a worker in a state the operation is valid in.
LEMMA OutcomeFacts ==
  ASSUME NEW r \in Record, Sound(r), Fit(r), NEW op \in ControlOp,
         r.m_state \in ValidIn[op], ~ PortErrors /\ op = "initialize" => r.phase = "new",
         NEW o \in Outcomes(r, op)
  PROVE  ControlOutcome(r, op, o)
<1>1. CASE op = "start"
  BY <1>1, StartFacts
<1>2. CASE op # "start" /\ \E rc \in Results : o = ControlOperation(r, op, rc)
  BY <1>2, MethodFacts
<1>3. CASE o = [w |-> r, threw |-> TRUE]
  BY <1>3 DEF ControlOutcome, Of
<1>4. QED BY <1>1, <1>2, <1>3 DEF Outcomes

-----------------------------------------------------------------------------
(* The invariant of the two threads. *)

\* Who goes through the workers holds the container's mutex.
LockInv ==
  /\ thread \in {"run", "release"} => lock = "thread"
  /\ user.step = "delete" => lock = "user"

\* The mutex of a worker is held between the two halves of a control
\* operation only.
MutexInv ==
  /\ user.step \in {"control", "end"} => user.w \in Worker /\ user.op \in ControlOp
  /\ \A w \in Worker : /\ mutex[w] = "user" => user.step = "end" /\ user.w = w
                       /\ mutex[w] = "thread" => thread = "release" /\ cur = w

\* The record a worker has once its mutex is free.
Settled(w) ==
  IF mutex[w] = "user" THEN SetState(worker[w], user.op)
  ELSE IF mutex[w] = "thread" THEN SetState(worker[w], "release") ELSE worker[w]

WorkerInv ==
  \A w \in Worker : worker[w].alive =>
    Sound(Settled(w)) /\ (crashed = "no" => Fit(Settled(w)))

\* A worker under control is not destroyed, and one that is to be initialized
\* is new: the other thread does not release it meanwhile.  Nor is a worker
\* destroyed while the container's thread holds its mutex.
NewInv ==
  /\ user.step \in {"control", "end"} =>
       /\ worker[user.w].alive
       /\ ~ PortErrors /\ user.step = "control" /\ user.op = "initialize" =>
            worker[user.w].phase = "new"
  /\ \A w \in Worker : mutex[w] = "thread" => worker[w].alive

IInv == TypeOK /\ LockInv /\ MutexInv /\ WorkerInv /\ NewInv

\* Workers begin new, disabled and with free mutexes.
LEMMA InitInv == Init => IInv
<1> SUFFICES ASSUME Init PROVE IInv
  OBVIOUS
<1> USE DEF Init, Idle
<1>1. TypeOK
  <2>1. NWorkers \in Nat /\ MaxCalls \in Nat /\ MaxRuns \in Nat
    BY CountAssumption
  <2>2. worker \in [Worker -> Record]
    BY DEF Record, ControlState
  <2>3. user \in User
    BY <2>1 DEF User
  <2>4. runs \in [Worker -> 0 .. MaxRuns] /\ calls \in 0 .. MaxCalls /\ cur \in 0 .. NWorkers + 1
    BY <2>1
  <2>5. mutex \in [Worker -> Actor] /\ lock \in Actor /\ m_enabled \in BOOLEAN
    BY Zenon DEF Actor
  <2>6. QED BY <2>2, <2>3, <2>4, <2>5 DEF TypeOK
<1>2. LockInv /\ MutexInv /\ NewInv
  BY DEF LockInv, MutexInv, NewInv
<1>3. WorkerInv
  BY DEF WorkerInv, Settled, Sound, Gone, InPhase, Fit, Good
<1>4. QED BY <1>1, <1>2, <1>3 DEF IInv

\* Steps that leave the workers and their mutexes alone.
LEMMA QuietStep ==
  ASSUME IInv, UNCHANGED <<worker, mutex>>, crashed = "no",
         user' = user \/ user.step # "end"
  PROVE  WorkerInv'
<1>1. ASSUME NEW w \in Worker PROVE Settled(w)' = Settled(w)
  BY <1>1 DEF IInv, MutexInv, Settled
<1>2. QED BY <1>1 DEF IInv, WorkerInv

\* A step of the container's thread that runs one worker.
LEMMA RunStep ==
  ASSUME IInv, NEW w \in Worker, worker[w].alive, worker[w].enabled, mutex[w] = "none",
         crashed = "no", UNCHANGED <<mutex, user>>,
         NEW o, RunOutcome(worker[w], o), worker' = [worker EXCEPT ![w] = o.w],
         crashed' = "no" => ~ o.threw
  PROVE  worker' \in [Worker -> Record] /\ WorkerInv' /\ NewInv'
<1>1. worker \in [Worker -> Record] /\ o.w \in Record
  BY DEF IInv, TypeOK, RunOutcome, Of
<1>2. worker' \in [Worker -> Record] /\ worker'[w] = o.w
  BY <1>1
<1>3. \A v \in Worker \ {w} : worker'[v] = worker[v] /\ Settled(v)' = Settled(v)
  BY <1>1 DEF Settled
<1>4. Settled(w)' = o.w /\ Settled(w) = worker[w]
  BY <1>2 DEF Settled
<1>5. WorkerInv'
  BY <1>3, <1>4 DEF IInv, WorkerInv, RunOutcome
<1>6. NewInv'
  <2>1. ~ PortErrors => worker[w].phase = "started"
    BY <1>4 DEF IInv, WorkerInv, Sound, InPhase
  <2>2. user.step \in {"control", "end"} => user.w \in Worker
    BY DEF IInv, MutexInv
  <2>3. worker'[w].alive
    BY Zenon, <1>2 DEF RunOutcome, Of
  <2>4. QED BY <1>3, <2>1, <2>2, <2>3 DEF IInv, NewInv
<1>7. QED BY <1>2, <1>5, <1>6

\* The operation a thread makes is one the record of its worker allows.
Controls(w, op) ==
  /\ w \in Worker /\ op \in ControlOp /\ crashed = "no" /\ worker[w].alive
  /\ ~ PortErrors /\ op = "initialize" => worker[w].phase = "new"

\* A control operation that is refused or throws.
LEMMA ThrowStep ==
  ASSUME IInv, NEW w, NEW op, Controls(w, op), ControlThrows(w, op),
         user' = user \/ user.step # "end"
  PROVE  /\ worker' \in [Worker -> Record] /\ WorkerInv'
         /\ worker'[w].alive /\ \A v \in Worker \ {w} : worker'[v] = worker[v]
         /\ worker'[w] = worker[w] \/ worker[w].m_state \in ValidIn[op]
<1>1. worker \in [Worker -> Record] /\ mutex[w] = "none" /\ UNCHANGED mutex /\ w \in Worker
  BY DEF IInv, TypeOK, ControlThrows, Controls
<1>2. CASE UNCHANGED worker
  BY <1>1, <1>2, QuietStep DEF Controls
<1>3. ASSUME NEW o \in Outcomes(worker[w], op), worker[w].m_state \in ValidIn[op], o.threw,
             worker' = [worker EXCEPT ![w] = o.w]
      PROVE  /\ worker' \in [Worker -> Record] /\ WorkerInv' /\ worker'[w].alive
             /\ \A v \in Worker \ {w} : worker'[v] = worker[v]
  <2>1. Settled(w) = worker[w] /\ worker[w] \in Record
    BY <1>1 DEF Settled
  <2>2. Sound(worker[w]) /\ Fit(worker[w])
    BY <1>1, <2>1 DEF IInv, WorkerInv, Controls
  <2>3. ControlOutcome(worker[w], op, o)
    BY <1>3, <2>1, <2>2, OutcomeFacts DEF Controls
  <2>4. o.w \in Record /\ o.w.alive /\ Sound(o.w) /\ Fit(o.w)
    BY Zenon, <1>3, <2>3 DEF ControlOutcome, Of, Controls
  <2>5. worker' \in [Worker -> Record] /\ worker'[w] = o.w /\ Settled(w)' = o.w
    BY <1>1, <1>3, <2>4 DEF Settled
  <2>6. \A v \in Worker \ {w} : worker'[v] = worker[v]
    BY <1>1, <1>3
  <2>7. \A v \in Worker \ {w} : Settled(v)' = Settled(v)
    BY <1>1, <2>6 DEF IInv, MutexInv, Settled
  <2>8. WorkerInv'
    BY <2>4, <2>5, <2>6, <2>7 DEF IInv, WorkerInv, Controls
  <2>9. QED BY <2>4, <2>5, <2>6, <2>8
<1>4. QED BY <1>1, <1>2, <1>3 DEF ControlThrows

\* The first half of a control operation that succeeds.
LEMMA BeginStep ==
  ASSUME IInv, NEW w, NEW op, Controls(w, op), NEW a, ControlBegins(a, w, op),
         \/ a = "user" /\ user.step # "end" /\ user'.op = op
         \/ a = "thread" /\ op = "release" /\ UNCHANGED user
  PROVE  /\ worker' \in [Worker -> Record] /\ mutex' \in [Worker -> Actor] /\ WorkerInv'
         /\ worker'[w].alive /\ \A v \in Worker \ {w} : worker'[v] = worker[v]
         /\ worker[w].m_state \in ValidIn[op]
<1>1. /\ worker \in [Worker -> Record] /\ mutex \in [Worker -> Actor] /\ w \in Worker
      /\ mutex[w] = "none" /\ mutex' = [mutex EXCEPT ![w] = a]
  BY DEF IInv, TypeOK, ControlBegins, Controls
<1>2. PICK o \in Outcomes(worker[w], op) : ~ o.threw /\ worker' = [worker EXCEPT ![w] = o.w]
  BY Zenon DEF ControlBegins
<1>3. worker[w].m_state \in ValidIn[op]
  BY DEF ControlBegins
<1>4. Settled(w) = worker[w] /\ worker[w] \in Record
  BY <1>1 DEF Settled
<1>5. Sound(worker[w]) /\ Fit(worker[w])
  BY <1>1, <1>4 DEF IInv, WorkerInv, Controls
<1>6. ControlOutcome(worker[w], op, o)
  BY <1>3, <1>4, <1>5, OutcomeFacts DEF Controls
<1>7. o.w \in Record /\ o.w.alive /\ Sound(SetState(o.w, op)) /\ Fit(SetState(o.w, op))
  BY Zenon, <1>2, <1>6 DEF ControlOutcome, Of, Controls
<1>8. worker' \in [Worker -> Record] /\ worker'[w] = o.w /\ Settled(w)' = SetState(o.w, op)
  BY <1>1, <1>2, <1>7 DEF Settled
<1>9. \A v \in Worker \ {w} : worker'[v] = worker[v] /\ mutex'[v] = mutex[v]
  BY <1>1, <1>2
<1>10. \A v \in Worker \ {w} : Settled(v)' = Settled(v)
  BY <1>9 DEF IInv, MutexInv, Settled
<1>11. WorkerInv'
  BY <1>7, <1>8, <1>9, <1>10 DEF IInv, WorkerInv, Controls
<1>12. mutex' \in [Worker -> Actor]
  BY <1>1 DEF Actor
<1>13. QED BY <1>3, <1>7, <1>8, <1>9, <1>11, <1>12

\* The second half: setControlState.
LEMMA EndStep ==
  ASSUME IInv, NEW w \in Worker, NEW op \in ControlOp, NEW a, ControlEnds(a, w, op),
         crashed = "no", \/ a = "user" /\ user.op = op
                         \/ a = "thread" /\ op = "release" /\ UNCHANGED user
  PROVE  /\ worker' \in [Worker -> Record] /\ mutex' \in [Worker -> Actor] /\ WorkerInv'
         /\ \A v \in Worker : worker'[v].alive = worker[v].alive
         /\ \A v \in Worker \ {w} : worker'[v] = worker[v]
         /\ worker'[w].phase = worker[w].phase
<1>1. /\ worker \in [Worker -> Record] /\ mutex \in [Worker -> Actor] /\ mutex[w] = a
      /\ mutex' = [mutex EXCEPT ![w] = "none"]
      /\ worker' = [worker EXCEPT ![w] = SetState(worker[w], op)]
  BY DEF IInv, TypeOK, ControlEnds
<1>2. /\ SetState(worker[w], op) \in Record
      /\ SetState(worker[w], op).alive = worker[w].alive
      /\ SetState(worker[w], op).phase = worker[w].phase
  BY <1>1 DEF SetState, NextState, ControlOp, Record, ControlState
<1>3. Settled(w)' = Settled(w)
  BY <1>1 DEF Settled
<1>4. \A v \in Worker \ {w} : worker'[v] = worker[v] /\ mutex'[v] = mutex[v]
  BY <1>1
<1>5. \A v \in Worker \ {w} : Settled(v)' = Settled(v)
  BY <1>1, <1>4 DEF IInv, MutexInv, Settled
<1>6. worker' \in [Worker -> Record] /\ mutex' \in [Worker -> Actor]
  BY <1>1, <1>2 DEF Actor
<1>7. \A v \in Worker : worker'[v].alive = worker[v].alive
  BY <1>1, <1>2, <1>4
<1>8. WorkerInv'
  BY <1>3, <1>5, <1>7 DEF IInv, WorkerInv
<1>9. QED BY <1>1, <1>2, <1>4, <1>6, <1>7, <1>8

\* The numbers of workers, calls and runs.
LEMMA Bounds == NWorkers \in Nat /\ MaxCalls \in Nat /\ MaxRuns \in Nat
BY CountAssumption

\* The application's thread: calls that begin.
LEMMA UserBegins ==
  ASSUME IInv, Call \/ StopContainer \/ StartContainer \/ Destroy
  PROVE  IInv'
<1>1. /\ UNCHANGED <<worker, runs, mutex, lock, cur, crashed>>
      /\ crashed = "no" /\ user = Idle /\ calls < MaxCalls /\ calls' = calls + 1
  BY DEF Call, StopContainer, StartContainer, Destroy
<1>2. user.step = "idle"
  BY <1>1 DEF Idle
<1>3. WorkerInv'
  BY <1>1, <1>2, QuietStep
<1>4. /\ thread' = thread \/ (thread = "none" /\ thread' = "top")
      /\ m_enabled' \in BOOLEAN
  BY Zenon DEF IInv, TypeOK, Call, StopContainer, StartContainer, Destroy, ContainerStart
<1>5. /\ user' \in User
      /\ user'.step \notin {"end", "delete"}
      /\ user'.step = "control" =>
           /\ user'.w \in Worker /\ user'.op \in ControlOp /\ worker[user'.w].alive
           /\ user'.op = "initialize" => worker[user'.w].phase = "new"
  <2>1. CASE Call
    <3>1. PICK w \in Worker, op \in ControlOp :
            /\ worker[w].alive /\ (op = "initialize" => worker[w].phase = "new")
            /\ \/ user' = [step |-> "control", op |-> op, w |-> w]
               \/ user' = [step |-> "wait", op |-> "none", w |-> w]
      <4>1. "stop" \in ControlOp /\ "stop" # "initialize"
        BY DEF ControlOp
      <4>2. QED BY <2>1, <4>1, Zenon DEF Call
    <3>2. QED BY <3>1, Bounds DEF User, Worker
  <2>2. CASE StopContainer \/ StartContainer
    BY <1>1, <1>2, <2>2 DEF IInv, TypeOK, StopContainer, StartContainer
  <2>3. CASE Destroy
    BY <2>3, Bounds DEF Destroy, User
  <2>4. QED BY <2>1, <2>2, <2>3
<1>6. TypeOK'
  BY <1>1, <1>4, <1>5, Bounds DEF IInv, TypeOK
<1>7. LockInv' /\ MutexInv' /\ NewInv'
  BY <1>1, <1>2, <1>4, <1>5 DEF IInv, LockInv, MutexInv, NewInv
<1>8. QED BY <1>3, <1>6, <1>7 DEF IInv

\* A control operation of the application.
LEMMA UserControls ==
  ASSUME IInv, Control
  PROVE  IInv'
<1>1. /\ UNCHANGED <<runs, lock, cur, calls, crashed>>
      /\ crashed = "no" /\ user.step = "control"
  BY DEF Control
<1>2. Controls(user.w, user.op)
  BY <1>1 DEF IInv, MutexInv, NewInv, Controls
<1>3. user \in User /\ Idle \in User /\ Idle.step = "idle"
  BY Bounds DEF IInv, TypeOK, User, Idle
<1>4. CASE ControlThrows(user.w, user.op) /\ user' = Idle
  <2>1. /\ worker' \in [Worker -> Record] /\ WorkerInv'
        /\ worker'[user.w].alive /\ \A v \in Worker \ {user.w} : worker'[v] = worker[v]
    BY <1>1, <1>2, <1>4, ThrowStep
  <2>2. UNCHANGED <<mutex, m_enabled, thread>>
    BY <1>4 DEF ControlThrows
  <2>3. QED
    BY <1>1, <1>3, <1>4, <2>1, <2>2 DEF IInv, TypeOK, LockInv, MutexInv, NewInv
<1>5. CASE ControlSkips(user.w, user.op) /\ user' = Idle
  <2>1. /\ UNCHANGED <<worker, mutex>>
        /\ UNCHANGED <<m_enabled, thread>> \/ ContainerStart
    BY <1>5 DEF ControlSkips
  <2>2. WorkerInv'
    BY <1>1, <2>1, QuietStep
  <2>3. /\ thread' = thread \/ (thread = "none" /\ thread' = "top")
        /\ m_enabled' \in BOOLEAN
    BY Zenon, <2>1 DEF ContainerStart, IInv, TypeOK
  <2>4. TypeOK'
    BY <1>1, <1>3, <1>5, <2>1, <2>3 DEF IInv, TypeOK
  <2>5. LockInv' /\ MutexInv' /\ NewInv'
    BY <1>1, <1>3, <1>5, <2>1, <2>3 DEF IInv, LockInv, MutexInv, NewInv
  <2>6. QED BY <2>2, <2>4, <2>5 DEF IInv
<1>6. CASE ControlBegins("user", user.w, user.op) /\ user' = [user EXCEPT !.step = "end"]
  <2>1. user' \in User /\ user'.step = "end" /\ user'.w = user.w /\ user'.op = user.op
    BY <1>3, <1>6 DEF User
  <2>2. /\ worker' \in [Worker -> Record] /\ mutex' \in [Worker -> Actor] /\ WorkerInv'
        /\ worker'[user.w].alive /\ \A v \in Worker \ {user.w} : worker'[v] = worker[v]
    BY <1>1, <1>2, <1>6, <2>1, BeginStep
  <2>3. /\ UNCHANGED <<m_enabled, thread>>
        /\ mutex' = [mutex EXCEPT ![user.w] = "user"]
    BY <1>6 DEF ControlBegins
  <2>4. TypeOK' /\ LockInv' /\ NewInv'
    BY <1>1, <1>2, <2>1, <2>2, <2>3 DEF IInv, TypeOK, LockInv, NewInv, Controls
  <2>5. MutexInv'
    BY <1>1, <1>2, <2>1, <2>3 DEF IInv, TypeOK, MutexInv, Controls
  <2>6. QED BY <2>2, <2>4, <2>5 DEF IInv
<1>7. QED BY <1>4, <1>5, <1>6 DEF Control

\* The application's thread sets the control state and releases the mutex.
LEMMA UserEnds ==
  ASSUME IInv, End
  PROVE  IInv'
<1>1. /\ UNCHANGED <<runs, lock, cur, calls, crashed>> /\ user' = Idle
      /\ crashed = "no" /\ user.step = "end" /\ ControlEnds("user", user.w, user.op)
  BY DEF End
<1>2. user.w \in Worker /\ user.op \in ControlOp
  BY <1>1 DEF IInv, MutexInv
<1>3. /\ worker' \in [Worker -> Record] /\ mutex' \in [Worker -> Actor] /\ WorkerInv'
      /\ \A v \in Worker : worker'[v].alive = worker[v].alive
  BY <1>1, <1>2, EndStep
<1>4. /\ mutex' = [mutex EXCEPT ![user.w] = "none"]
      /\ thread' = thread \/ (thread = "none" /\ thread' = "top")
      /\ m_enabled' \in BOOLEAN
  BY <1>1 DEF ControlEnds, ContainerStart, IInv, TypeOK
<1>5. Idle \in User /\ Idle.step = "idle"
  BY Bounds DEF User, Idle
<1>6. TypeOK'
  BY <1>1, <1>3, <1>4, <1>5 DEF IInv, TypeOK
<1>7. LockInv' /\ MutexInv' /\ NewInv'
  BY <1>1, <1>2, <1>3, <1>4, <1>5 DEF IInv, TypeOK, LockInv, MutexInv, NewInv
<1>8. QED BY <1>3, <1>6, <1>7 DEF IInv

\* Steps of the application's thread that change neither workers nor mutexes.
LEMMA UserWaits ==
  ASSUME IInv, Wait \/ Join \/ Lock \/ Unlock
  PROVE  IInv'
<1>1. /\ UNCHANGED <<worker, runs, mutex, m_enabled, thread, cur, calls, crashed>>
      /\ crashed = "no" /\ user.step \in {"wait", "join", "lock", "delete"}
  BY DEF Wait, Join, Lock, Unlock
<1>2. WorkerInv'
  BY <1>1, QuietStep
<1>3. /\ user' \in User /\ user'.step \notin {"control", "end"}
      /\ user'.step = "delete" => lock' = "user" /\ lock = "none"
      /\ lock' = lock \/ lock \in {"none", "user"}
      /\ lock' \in Actor
  <2>1. CASE Wait \/ Unlock
    BY <2>1, Bounds DEF IInv, TypeOK, LockInv, User, Idle, Wait, Unlock, Actor
  <2>2. CASE Join \/ Lock
    BY Zenon, <2>2 DEF IInv, TypeOK, LockInv, User, Join, Lock, Actor
  <2>3. QED BY <2>1, <2>2
<1>4. TypeOK'
  BY <1>1, <1>3 DEF IInv, TypeOK
<1>5. LockInv' /\ MutexInv' /\ NewInv'
  BY <1>1, <1>3 DEF IInv, LockInv, MutexInv, NewInv
<1>6. QED BY <1>2, <1>4, <1>5 DEF IInv

\* A worker that is destroyed leaves a record that nothing is said about.
LEMMA UserDeletes ==
  ASSUME IInv, Delete
  PROVE  IInv'
<1>1. /\ UNCHANGED <<runs, mutex, lock, m_enabled, thread, cur, calls>>
      /\ crashed = "no" /\ user.step = "delete" /\ user.w \in Worker
      /\ user' = [user EXCEPT !.w = @ + 1]
  BY DEF Delete
<1>2. user' \in User /\ user'.step = "delete"
  BY <1>1, Bounds DEF IInv, TypeOK, User, Worker
<1>3. /\ worker' \in [Worker -> Record]
      /\ WorkerInv'
      /\ crashed' \in {"no", "destructor"}
      /\ \A v \in Worker : worker'[v] = worker[v] \/ mutex[v] = "none"
  <2>1. CASE ~ worker[user.w].alive
    <3>1. UNCHANGED <<worker, crashed>>
      BY <2>1 DEF Delete
    <3>2. QED BY <1>1, <3>1, QuietStep DEF IInv, TypeOK
  <2>2. CASE worker[user.w].alive
    <3> DEFINE r == worker[user.w]
    <3>1. worker \in [Worker -> Record] /\ r \in Record
      BY <1>1 DEF IInv, TypeOK
    <3>2. PICK q \in Deleted(r) :
            /\ worker' = [worker EXCEPT ![user.w] = q.w]
            /\ crashed' = IF q.threw THEN "destructor" ELSE "no"
      BY <2>2 DEF Delete
    <3> HIDE DEF r
    <3>3. PICK s \in Of(r) : q = [s EXCEPT !.w.alive = FALSE]
      <4>1. PICK a \in Results, b \in Results :
              q = LET s == IF r.enabled THEN StopAndRelease(r, a, b)
                           ELSE ControlOperation(r, "release", b)
                  IN [s EXCEPT !.w.alive = FALSE]
        BY DEF Deleted
      <4>2. (IF r.enabled THEN StopAndRelease(r, a, b)
             ELSE ControlOperation(r, "release", b)) \in Of(r)
        BY <3>1, StopAndReleaseFacts, ReleaseFacts
      <4>3. QED BY Zenon, <4>1, <4>2
    <3>4. q.w \in Record /\ ~ q.w.alive
      BY Zenon, <3>3 DEF Of, Record
    <3>5. worker' \in [Worker -> Record] /\ ~ worker'[user.w].alive
      BY <1>1, <3>1, <3>2, <3>4
    <3>6. \A v \in Worker \ {user.w} : worker'[v] = worker[v] /\ Settled(v)' = Settled(v)
      BY <1>1, <3>1, <3>2 DEF IInv, MutexInv, Settled
    <3>7. WorkerInv'
      BY <1>1, <3>5, <3>6 DEF IInv, WorkerInv
    <3>8. mutex[user.w] = "none"
      BY <2>2 DEF Delete
    <3>9. QED BY <3>2, <3>5, <3>6, <3>7, <3>8
  <2>3. QED BY <2>1, <2>2
<1>4. TypeOK'
  BY <1>1, <1>2, <1>3 DEF IInv, TypeOK
<1>5. LockInv' /\ MutexInv' /\ NewInv'
  BY <1>1, <1>2, <1>3 DEF IInv, LockInv, MutexInv, NewInv
<1>6. QED BY <1>3, <1>4, <1>5 DEF IInv

\* The container's thread between the workers.
LEMMA ThreadMoves ==
  ASSUME IInv, Top \/ Dispatch \/ RunTransport \/ Loop \/ Exit
  PROVE  IInv'
<1>1. UNCHANGED <<worker, runs, mutex, m_enabled, user, calls>> /\ crashed = "no"
  BY DEF Top, Dispatch, RunTransport, Loop, Exit
<1>2. WorkerInv'
  BY <1>1, QuietStep
<1>3. /\ thread' \in {"lock", "gone", "run", "release", "top"}
      /\ thread' \in {"run", "release"} =>
           lock' = "thread" /\ (lock = "none" \/ (lock' = lock /\ thread' = thread))
      /\ lock' = lock \/ lock = "none" \/ thread \in {"run", "release"}
      /\ lock' \in Actor /\ cur' \in 0 .. NWorkers + 1
      /\ crashed' \in {"no", "terminate"}
  BY Bounds DEF IInv, TypeOK, LockInv, Top, Dispatch, RunTransport, Loop, Exit, Actor
<1>4. \A w \in Worker : mutex[w] # "thread"
  BY Bounds DEF IInv, MutexInv, Top, Dispatch, RunTransport, Loop, Exit, Worker
<1>5. TypeOK'
  BY <1>1, <1>3 DEF IInv, TypeOK
<1>6. LockInv' /\ MutexInv' /\ NewInv'
  BY <1>1, <1>3, <1>4 DEF IInv, LockInv, MutexInv, NewInv
<1>7. QED BY <1>2, <1>5, <1>6 DEF IInv

\* A worker that the container's thread finds enabled.
LEMMA EnabledRuns ==
  ASSUME IInv, NEW w \in Worker, worker[w].alive, worker[w].enabled, mutex[w] = "none",
         crashed = "no"
  PROVE  /\ Running(worker[w])
         /\ \A q \in Ready(worker[w]) : Running(q) /\ q.alive = worker[w].alive
<1>1. worker[w] \in Record /\ Settled(w) = worker[w]
  BY DEF IInv, TypeOK, Settled
<1>2. Running(worker[w])
  BY <1>1 DEF IInv, WorkerInv, Running
<1>3. ASSUME NEW q \in Ready(worker[w]) PROVE Running(q) /\ q.alive = worker[w].alive
  <2>1. PICK p \in UsePorts(worker[w]) : q = p.w /\ ~ p.threw
    BY DEF Ready
  <2>2. PortUse(worker[w], p)
    BY <1>1, PortsFacts
  <2>3. QED BY Zenon, <1>2, <2>1, <2>2, RunningPort DEF PortUse, Of
<1>4. QED BY Zenon, <1>2, <1>3

\* The container's thread runs a worker, calls it back or passes it over.
LEMMA ThreadRuns ==
  ASSUME IInv, RunNot \/ RunCallback \/ (\E w \in Worker : RunWorker(w))
  PROVE  IInv'
<1>1. /\ UNCHANGED <<mutex, lock, m_enabled, thread, user, calls>>
      /\ crashed = "no" /\ thread = "run" /\ cur \in Worker /\ cur' = cur + 1
  BY DEF RunNot, RunCallback, RunWorker
<1>2. cur' \in 0 .. NWorkers + 1
  BY <1>1, Bounds DEF Worker
<1>3. runs' \in [Worker -> 0 .. MaxRuns]
  <2>1. CASE RunNot \/ RunCallback
    BY <2>1 DEF RunNot, RunCallback, IInv, TypeOK
  <2>2. CASE \E w \in Worker : RunWorker(w)
    BY <2>2, Bounds DEF RunWorker, IInv, TypeOK
  <2>3. QED BY <2>1, <2>2
<1>4. crashed' \in {"no", "terminate", "assert_ready", "assert_callback"}
  BY Zenon DEF RunNot, RunCallback, RunWorker
<1>5. \/ UNCHANGED worker
      \/ /\ worker[cur].alive /\ worker[cur].enabled /\ mutex[cur] = "none"
         /\ \E o : /\ RunOutcome(worker[cur], o)
                   /\ worker' = [worker EXCEPT ![cur] = o.w]
                   /\ crashed' = "no" => ~ o.threw
  <2>1. CASE RunNot
    <3>1. CASE worker[cur].alive /\ worker[cur].enabled
      <4>1. PICK p \in UsePorts(worker[cur]) :
              worker' = [worker EXCEPT ![cur] = p.w] /\ (crashed' = "no" => ~ p.threw)
        BY <2>1, <3>1 DEF RunNot
      <4>2. mutex[cur] = "none"
        BY <2>1, <3>1 DEF RunNot
      <4>3. Running(worker[cur]) /\ worker[cur] \in Record
        BY <1>1, <3>1, <4>2, EnabledRuns DEF Running
      <4>4. RunOutcome(worker[cur], p)
        BY <4>3, PortsFacts, RunningPort
      <4>5. QED BY Zenon, <3>1, <4>1, <4>2, <4>4
    <3>2. CASE ~ (worker[cur].alive /\ worker[cur].enabled)
      BY <2>1, <3>2 DEF RunNot
    <3>3. QED BY <3>1, <3>2
  <2>2. CASE RunCallback
    <3>1. worker[cur].alive /\ worker[cur].enabled /\ mutex[cur] = "none"
      BY <2>2 DEF RunCallback, MayRun
    <3>2. PICK r \in Ready(worker[cur]) : \E c \in CalledBack(r) :
            worker' = [worker EXCEPT ![cur] = c.w] /\ (crashed' = "no" => ~ c.threw)
      BY Zenon, <2>2 DEF RunCallback
    <3>3. Running(r) /\ r.alive = worker[cur].alive
      BY Zenon, <1>1, <3>1, EnabledRuns
    <3>4. \A c \in CalledBack(r) : RunOutcome(worker[cur], c)
      BY <3>3, CalledBackFacts DEF RunOutcome, Of
    <3>5. QED BY Zenon, <3>1, <3>2, <3>4
  <2>3. CASE \E w \in Worker : RunWorker(w)
    <3>1. RunWorker(cur)
      BY Zenon, <2>3 DEF RunWorker
    <3>2. worker[cur].alive /\ worker[cur].enabled /\ mutex[cur] = "none"
      BY <3>1 DEF RunWorker, MayRun
    <3>3. PICK r \in Ready(worker[cur]) : \E o \in Ran(r, runs'[cur]) :
            worker' = [worker EXCEPT ![cur] = o.w] /\ (crashed' = "no" => ~ o.threw)
      BY Zenon, <3>1 DEF RunWorker
    <3>4. Running(r) /\ r.alive = worker[cur].alive
      BY Zenon, <1>1, <3>2, EnabledRuns
    <3>5. \A o \in Ran(r, runs'[cur]) : RunOutcome(worker[cur], o)
      BY Zenon, <3>4, RanFacts DEF RunOutcome, Of
    <3>6. QED BY Zenon, <3>2, <3>3, <3>5
  <2>4. QED BY <2>1, <2>2, <2>3
<1>6. worker' \in [Worker -> Record] /\ WorkerInv' /\ NewInv'
  <2>1. CASE UNCHANGED worker
    BY <1>1, <2>1, QuietStep DEF IInv, TypeOK, NewInv
  <2>2. CASE ~ UNCHANGED worker
    BY <1>1, <1>5, <2>2, RunStep
  <2>3. QED BY <2>1, <2>2
<1>7. TypeOK' /\ LockInv' /\ MutexInv'
  BY <1>1, <1>2, <1>3, <1>4, <1>6 DEF IInv, TypeOK, LockInv, MutexInv
<1>8. QED BY <1>6, <1>7 DEF IInv

\* The container's thread releases the workers after the transport failed.
LEMMA ThreadReleases ==
  ASSUME IInv, Release
  PROVE  IInv'
<1>1. /\ UNCHANGED <<runs, lock, user, calls>>
      /\ crashed = "no" /\ thread = "release" /\ cur \in Worker
  BY DEF Release
<1>2. cur + 1 \in 0 .. NWorkers + 1 /\ cur \in 0 .. NWorkers + 1
  BY <1>1, Bounds DEF Worker
<1>3. user.step \in {"control", "end"} => user.w \in Worker
  BY DEF IInv, MutexInv
<1>4. CASE ~ worker[cur].alive
  <2>1. UNCHANGED <<worker, mutex, m_enabled, thread, crashed>> /\ cur' = cur + 1
    BY <1>4 DEF Release
  <2>2. WorkerInv'
    BY <1>1, <2>1, QuietStep
  <2>3. mutex[cur] # "thread"
    BY <1>1, <1>4 DEF IInv, NewInv
  <2>4. QED
    BY <1>1, <1>2, <2>1, <2>2, <2>3 DEF IInv, TypeOK, LockInv, MutexInv, NewInv
<1>5. CASE worker[cur].alive
  <2>1. Controls(cur, "release")
    BY <1>1, <1>5 DEF Controls, ControlOp
  <2>2. ~ PortErrors /\ mutex[cur] = "none" /\ worker[cur].m_state \in ValidIn["release"]
          => worker[cur].phase # "new"
    BY Zenon, <1>1, <1>5 DEF IInv, WorkerInv, Settled, Sound, InPhase, ValidIn
  <2>3. CASE ControlThrows(cur, "release") /\ crashed' = "terminate" /\ UNCHANGED cur
    <3>1. /\ worker' \in [Worker -> Record] /\ WorkerInv'
          /\ worker'[cur].alive /\ \A v \in Worker \ {cur} : worker'[v] = worker[v]
          /\ worker'[cur] = worker[cur] \/ worker[cur].m_state \in ValidIn["release"]
      BY <1>1, <2>1, <2>3, ThrowStep
    <3>2. mutex[cur] = "none" /\ UNCHANGED <<mutex, m_enabled, thread>>
      BY <2>3 DEF ControlThrows
    <3>3. NewInv'
      BY <1>1, <1>3, <2>2, <3>1, <3>2 DEF IInv, TypeOK, NewInv
    <3>4. TypeOK' /\ LockInv' /\ MutexInv'
      BY <1>1, <2>3, <3>1, <3>2 DEF IInv, TypeOK, LockInv, MutexInv
    <3>5. QED BY <3>1, <3>3, <3>4 DEF IInv
  <2>4. CASE ControlSkips(cur, "release") /\ cur' = cur + 1 /\ UNCHANGED crashed
    <3>1. /\ UNCHANGED <<worker, mutex>> /\ mutex[cur] = "none"
          /\ thread' = thread /\ m_enabled' \in BOOLEAN
      BY Zenon, <1>1, <2>4 DEF ControlSkips, ContainerStart, IInv, TypeOK
    <3>2. WorkerInv'
      BY <1>1, <3>1, QuietStep
    <3>3. TypeOK' /\ LockInv' /\ MutexInv' /\ NewInv'
      BY <1>1, <1>2, <2>4, <3>1 DEF IInv, TypeOK, LockInv, MutexInv, NewInv
    <3>4. QED BY <3>2, <3>3 DEF IInv
  <2>5. CASE ControlBegins("thread", cur, "release") /\ UNCHANGED <<cur, crashed>>
    <3>1. /\ worker' \in [Worker -> Record] /\ mutex' \in [Worker -> Actor] /\ WorkerInv'
          /\ worker'[cur].alive /\ \A v \in Worker \ {cur} : worker'[v] = worker[v]
          /\ worker[cur].m_state \in ValidIn["release"]
      BY <1>1, <2>1, <2>5, BeginStep
    <3>2. /\ mutex[cur] = "none" /\ mutex' = [mutex EXCEPT ![cur] = "thread"]
          /\ UNCHANGED <<m_enabled, thread>>
      BY <2>5 DEF ControlBegins
    <3>3. NewInv'
      BY Zenon, <1>1, <1>3, <2>2, <3>1, <3>2 DEF IInv, TypeOK, NewInv
    <3>4. TypeOK' /\ LockInv'
      BY <1>1, <2>5, <3>1, <3>2 DEF IInv, TypeOK, LockInv
    <3>5. MutexInv'
      BY <1>1, <2>5, <3>2 DEF IInv, TypeOK, MutexInv
    <3>6. QED BY <3>1, <3>3, <3>4, <3>5 DEF IInv
  <2>6. CASE ControlEnds("thread", cur, "release") /\ cur' = cur + 1 /\ UNCHANGED crashed
    <3>1. /\ worker' \in [Worker -> Record] /\ mutex' \in [Worker -> Actor] /\ WorkerInv'
          /\ \A v \in Worker : worker'[v].alive = worker[v].alive
          /\ \A v \in Worker \ {cur} : worker'[v] = worker[v]
          /\ worker'[cur].phase = worker[cur].phase
      BY <1>1, <2>6, EndStep DEF ControlOp
    <3>2. /\ mutex' = [mutex EXCEPT ![cur] = "none"] /\ thread' = thread
          /\ m_enabled' \in BOOLEAN
      BY <1>1, <2>6 DEF ControlEnds, ContainerStart
    <3>3. NewInv'
      BY Zenon, <1>1, <1>3, <3>1, <3>2 DEF IInv, TypeOK, NewInv
    <3>4. TypeOK' /\ LockInv'
      BY <1>1, <1>2, <2>6, <3>1, <3>2 DEF IInv, TypeOK, LockInv
    <3>5. MutexInv'
      BY <1>1, <2>6, <3>2 DEF IInv, TypeOK, MutexInv
    <3>6. QED BY <3>1, <3>3, <3>4, <3>5 DEF IInv
  <2>7. QED BY <1>5, <2>3, <2>4, <2>5, <2>6 DEF Release
<1>6. QED BY <1>4, <1>5

\* A step that changes nothing.
LEMMA Stutter == IInv /\ UNCHANGED vars => IInv'
BY DEF vars, IInv, TypeOK, LockInv, MutexInv, WorkerInv, NewInv, Settled

\* The invariant holds for both threads, every operation and every failure.
THEOREM Invariance == Spec => []IInv
<1>1. IInv /\ [Next]_vars => IInv'
  BY UserBegins, UserControls, UserEnds, UserWaits, UserDeletes, ThreadMoves, ThreadRuns,
     ThreadReleases, Stutter DEF Next, InCall, ThreadStep
<1>2. QED BY <1>1, InitInv, PTL DEF Spec

\* Every variable keeps its type.
THEOREM TypeCorrect == Spec => []TypeOK
<1>1. IInv => TypeOK
  BY DEF IInv
<1>2. QED BY <1>1, Invariance, PTL

\* Workers are destroyed only while the dispatch of the container's thread is
\* not going through them, whatever fails and whoever stops the container.
THEOREM DestroyedAloneCorrect == Spec => []DestroyedAlone
<1>1. IInv => DestroyedAlone
  BY DEF IInv, LockInv, DestroyedAlone
<1>2. QED BY <1>1, Invariance, PTL

\* A worker is enabled exactly when it is OPERATING, for every interleaving of
\* control operations with the container's thread and whatever ports fail,
\* unless a method returns a result that is none of the three.
THEOREM EnabledCorrect ==
  ASSUME "invalid" \notin Results
  PROVE  Spec => []EnabledIsOperating
<1>1. IInv => EnabledIsOperating
  BY Zenon DEF IInv, WorkerInv, Settled, Fit, Good, EnabledIsOperating
<1>2. QED BY <1>1, Invariance, PTL

\* As long as no port fails, the methods of a worker are called in the order
\* of its life cycle, whatever they return.
THEOREM LifeCycleCorrect ==
  ASSUME ~ PortErrors
  PROVE  Spec => []LifeCycle
<1>1. ASSUME IInv, NEW w \in Worker, worker[w].alive PROVE ~ worker[w].misused
  <2>1. InPhase(Settled(w)) /\ worker[w] \in Record
    BY <1>1 DEF IInv, TypeOK, WorkerInv, Sound
  <2>2. Settled(w).misused = worker[w].misused
    BY <2>1 DEF Settled, SetState, Record
  <2>3. QED BY <2>1, <2>2 DEF InPhase
<1>2. IInv => LifeCycle
  BY <1>1 DEF LifeCycle
<1>3. QED BY <1>2, Invariance, PTL

\* A worker that was released is never taken for one in use, unless a port can
\* fail in advanceAll of a worker that returned RCC_ADVANCE_DONE.
THEOREM ReleasedCorrect ==
  ASSUME ~ (PortErrors /\ "advance_done" \in RunResults)
  PROVE  Spec => []ReleasedIsGone
<1>1. IInv => ReleasedIsGone
  BY Zenon DEF IInv, WorkerInv, Settled, Sound, Lossy, Gone, ReleasedIsGone
<1>2. QED BY <1>1, Invariance, PTL

-----------------------------------------------------------------------------
(* A worker that is unusable. *)
Unusable(w) == worker[w].m_state = "UNUSABLE" /\ mutex[w] = "none"

\* It is not enabled: the container's thread passes it by.
LEMMA UnusableDisabled ==
  ASSUME "invalid" \notin Results \/ ~ PortErrors,
         IInv, NEW w \in Worker, Unusable(w), worker[w].alive, crashed = "no"
  PROVE  ~ worker[w].enabled
<1>1. Sound(worker[w]) /\ Fit(worker[w])
  <2>1. Sound(Settled(w)) /\ Fit(Settled(w))
    BY Zenon DEF IInv, WorkerInv
  <2>2. Settled(w) = worker[w]
    BY DEF Settled, Unusable
  <2>3. QED BY Zenon, <2>1, <2>2
<1>2. worker[w].m_state # "OPERATING"
  BY DEF Unusable
<1>3. QED BY Zenon, <1>1, <1>2 DEF Sound, Fit, Good, InPhase

\* No control operation is valid for it.
LEMMA UnusableRefuses ==
  ASSUME IInv, NEW w \in Worker, Unusable(w), NEW v \in Worker, NEW op \in ControlOp,
         NEW a \in {"user", "thread"},
         ControlThrows(v, op) \/ ControlSkips(v, op) \/ ControlBegins(a, v, op) \/ ControlEnds(a, v, op)
  PROVE  Unusable(w)'
<1>1. worker \in [Worker -> Record] /\ mutex \in [Worker -> Actor]
  BY Zenon DEF IInv, TypeOK
<1>2. "UNUSABLE" \notin ValidIn[op]
  BY DEF ValidIn, ControlOp
<1>3. CASE ControlThrows(v, op) \/ ControlSkips(v, op)
  <2>1. mutex' = mutex /\ (worker' = worker \/ (v # w /\ \E r : worker' = [worker EXCEPT ![v] = r]))
    BY Zenon, <1>2, <1>3 DEF ControlThrows, ControlSkips, Unusable
  <2>2. worker'[w] = worker[w] /\ mutex'[w] = "none"
    BY Zenon, <1>1, <2>1 DEF Unusable
  <2>3. QED BY Zenon, <2>2 DEF Unusable
<1>4. CASE ControlBegins(a, v, op) \/ ControlEnds(a, v, op)
  <2>1. v # w
    <3>1. CASE ControlBegins(a, v, op)
      BY Zenon, <1>2, <3>1 DEF ControlBegins, Unusable
    <3>2. CASE ControlEnds(a, v, op)
      <4>1. mutex[v] = a /\ a # "none"
        BY <3>2 DEF ControlEnds
      <4>2. QED BY Zenon, <4>1 DEF Unusable
    <3>3. QED BY Zenon, <1>4, <3>1, <3>2
  <2>2. (\E r : worker' = [worker EXCEPT ![v] = r]) /\ (\E x : mutex' = [mutex EXCEPT ![v] = x])
    BY Zenon, <1>4 DEF ControlBegins, ControlEnds
  <2>3. worker'[w] = worker[w] /\ mutex'[w] = "none"
    BY Zenon, <1>1, <2>1, <2>2 DEF Unusable
  <2>4. QED BY Zenon, <2>3 DEF Unusable
<1>5. QED BY Zenon, <1>3, <1>4

LEMMA UnusableStep ==
  ASSUME "invalid" \notin Results \/ ~ PortErrors,
         IInv, NEW w \in Worker, Unusable(w), [Next]_vars
  PROVE  Unusable(w)'
<1>1. worker \in [Worker -> Record] /\ mutex \in [Worker -> Actor]
  BY Zenon DEF IInv, TypeOK
<1>2. ASSUME NEW v \in Worker, v # w, NEW r, worker' = [worker EXCEPT ![v] = r], mutex' = mutex
      PROVE  Unusable(w)'
  BY Zenon, <1>1, <1>2 DEF Unusable
<1>3. ASSUME UNCHANGED <<worker, mutex>> PROVE Unusable(w)'
  BY Zenon, <1>3 DEF Unusable
<1>4. CASE \/ Call \/ StopContainer \/ StartContainer \/ Destroy \/ Wait \/ Join \/ Lock \/ Unlock
           \/ Top \/ Dispatch \/ RunTransport \/ Loop \/ Exit \/ UNCHANGED vars
  <2>1. UNCHANGED <<worker, mutex>>
    BY Zenon, <1>4 DEF Call, StopContainer, StartContainer, Destroy, Wait, Join, Lock, Unlock,
       Top, Dispatch, RunTransport, Loop, Exit, vars
  <2>2. QED BY Zenon, <1>3, <2>1
<1>5. CASE Control \/ End
  <2>1. user.w \in Worker /\ user.op \in ControlOp
    BY <1>5 DEF Control, End, IInv, MutexInv
  <2>2. \/ ControlThrows(user.w, user.op) \/ ControlSkips(user.w, user.op)
        \/ ControlBegins("user", user.w, user.op) \/ ControlEnds("user", user.w, user.op)
    BY Zenon, <1>5 DEF Control, End
  <2>3. "user" \in {"user", "thread"}
    OBVIOUS
  <2>4. QED BY Zenon, <2>1, <2>2, <2>3, UnusableRefuses
<1>6. CASE Release
  <2>1. cur \in Worker /\ "release" \in ControlOp /\ "thread" \in {"user", "thread"}
    BY <1>6 DEF Release, ControlOp
  <2>2. \/ UNCHANGED <<worker, mutex>>
        \/ ControlThrows(cur, "release") \/ ControlSkips(cur, "release")
        \/ ControlBegins("thread", cur, "release") \/ ControlEnds("thread", cur, "release")
    BY Zenon, <1>6 DEF Release
  <2>3. QED BY Zenon, <1>3, <2>1, <2>2, UnusableRefuses
<1>7. CASE Delete
  <2>1. user.w \in Worker /\ mutex' = mutex /\ crashed = "no"
    BY Zenon, <1>7 DEF Delete
  <2>2. CASE ~ worker[user.w].alive
    BY Zenon, <1>3, <1>7, <2>1, <2>2 DEF Delete
  <2>3. CASE worker[user.w].alive
    <3>1. PICK q \in Deleted(worker[user.w]) : worker' = [worker EXCEPT ![user.w] = q.w]
      BY Zenon, <1>7, <2>3 DEF Delete
    <3>2. CASE user.w # w
      BY Zenon, <1>2, <2>1, <3>1, <3>2
    <3>3. CASE user.w = w
      <4>1. ~ worker[w].enabled /\ worker[w] \in Record
        BY Zenon, <1>1, <2>1, <2>3, <3>3, UnusableDisabled
      <4>2. PICK b \in Results : q = [ControlOperation(worker[w], "release", b) EXCEPT !.w.alive = FALSE]
        <5>1. PICK a \in Results, b \in Results :
                q = [(IF worker[w].enabled THEN StopAndRelease(worker[w], a, b)
                      ELSE ControlOperation(worker[w], "release", b)) EXCEPT !.w.alive = FALSE]
          BY <3>1, <3>3 DEF Deleted
        <5>2. QED BY Zenon, <4>1, <5>1
      <4>3. LET o == ControlOperation(worker[w], "release", b) IN
            o \in Of(worker[w]) /\ o.w.m_state = "UNUSABLE"
        BY Zenon, <4>1, ReleaseFacts
      <4>4. q.w.m_state = "UNUSABLE"
        <5> DEFINE o == ControlOperation(worker[w], "release", b)
        <5>1. o \in [w : Record, threw : BOOLEAN] /\ o.w.m_state = "UNUSABLE" /\ q = [o EXCEPT !.w.alive = FALSE]
          BY Zenon, <4>2, <4>3 DEF Of
        <5> HIDE DEF o
        <5>2. QED BY <5>1 DEF Record
      <4>5. worker'[w].m_state = "UNUSABLE"
        BY Zenon, <1>1, <3>1, <3>3, <4>4
      <4>6. QED BY Zenon, <2>1, <4>5 DEF Unusable
    <3>4. QED BY Zenon, <3>2, <3>3
  <2>4. QED BY Zenon, <2>2, <2>3
<1>8. CASE RunNot \/ RunCallback \/ \E v \in Worker : RunWorker(v)
  <2>1. PICK v \in Worker :
          /\ crashed = "no" /\ mutex' = mutex
          /\ \/ worker' = worker
             \/ (worker[v].alive /\ worker[v].enabled /\ \E r : worker' = [worker EXCEPT ![v] = r])
    BY Zenon, <1>8 DEF RunNot, RunCallback, RunWorker, MayRun
  <2>2. CASE worker' = worker
    BY Zenon, <1>3, <2>1, <2>2
  <2>3. CASE worker' # worker
    <3>1. v # w
      BY Zenon, <2>1, <2>3, UnusableDisabled
    <3>2. QED BY Zenon, <1>2, <2>1, <2>3, <3>1
  <2>4. QED BY Zenon, <2>2, <2>3
<1>9. QED
  BY Zenon, <1>4, <1>5, <1>6, <1>7, <1>8 DEF Next, InCall, ThreadStep

\* A worker that others see as UNUSABLE stays so: every operation is refused,
\* the container's thread passes it by, and its destructor, which releases
\* it, leaves it unusable.  A start method that returns none of the three
\* results after a port failed in it is not meant.
THEOREM UnusableCorrect ==
  ASSUME "invalid" \notin Results \/ ~ PortErrors
  PROVE  Spec => UnusableStays
<1>1. ASSUME NEW w \in Worker
      PROVE  Spec => [](worker[w].m_state = "UNUSABLE" /\ mutex[w] = "none" =>
                        [](mutex[w] = "none" => worker[w].m_state = "UNUSABLE"))
  <2>1. IInv /\ Unusable(w) /\ [Next]_vars => Unusable(w)'
    BY Zenon, UnusableStep
  <2>2. Unusable(w) <=> worker[w].m_state = "UNUSABLE" /\ mutex[w] = "none"
    BY Zenon DEF Unusable
  <2>3. QED
    BY <2>1, <2>2, Invariance, PTL DEF Spec
<1>2. QED
  BY <1>1 DEF UnusableStays
=============================================================================
