----------------------------- MODULE CodecProofs ------------------------------
(***************************************************************************)
(* Theorems about Codec and their proofs.                                  *)
(***************************************************************************)
EXTENDS Codec, SequenceTheorems, TLAPS

Op    == {"write", "read", "poll", "reset", "sleep"}
Calls == [op : Op, addr : Int, val : Int]

-----------------------------------------------------------------------------
(***************************************************************************)
(* The calls of init_codec.                                                *)
(***************************************************************************)
\* The table of the settings: 26 registers, none of them one of setup_pll's.
LEMMA ConfigShape ==
  /\ Len(Config) = 26 /\ DOMAIN Config = 1 .. 26
  /\ \A i \in 1 .. 26 : /\ Config[i][1] \in Int /\ Config[i][2] \in Int
                        /\ Config[i][1] # 0
                        /\ Config[i][1] # \h4000 /\ Config[i][1] # \h4002
BY SMTT(60) DEF Config

\* No register is set twice.
LEMMA ConfigDistinct ==
  \A i, j \in 1 .. 26 : Config[i][1] = Config[j][1] => i = j
BY SMTT(60) DEF Config

\* reset_adau1761: the reset and three reads.
LEMMA ResetShape ==
  /\ reset_adau1761 \in Seq(Calls) /\ Len(reset_adau1761) = 4
  /\ reset_adau1761[1] = [op |-> "reset", addr |-> 0, val |-> 0]
  /\ \A i \in 2 .. 4 : reset_adau1761[i] = [op |-> "read", addr |-> 0, val |-> 0]
BY DEF reset_adau1761, Call, Calls, Op

\* setup_pll: core clock off, PLL set up, its lock awaited, core clock on.
LEMMA PllShape ==
  /\ setup_pll \in Seq(Calls) /\ Len(setup_pll) = 5
  /\ setup_pll[1] = [op |-> "write", addr |-> \h4000, val |-> CoreOff]
  /\ setup_pll[2] = [op |-> "write", addr |-> \h4002, val |-> PllWord]
  /\ setup_pll[3] = [op |-> "poll", addr |-> \h4002, val |-> 0]
  /\ setup_pll[4] = [op |-> "write", addr |-> \h4000, val |-> CoreOn]
  /\ setup_pll[5] = [op |-> "sleep", addr |-> 0, val |-> 0]
BY DEF setup_pll, Call, Calls, Op, CoreOff, CoreOn, PllWord

\* init_codec is its three parts in this order: 35 calls.
LEMMA ProgramParts ==
  /\ Program \in Seq(Calls) /\ Len(Program) = 35
  /\ \A i \in 1 .. 4 : Program[i] = reset_adau1761[i]
  /\ \A i \in 1 .. 5 : Program[i + 4] = setup_pll[i]
  /\ \A i \in 10 .. 35 : Program[i].op = "write"
  /\ \A i \in 10 .. 35 : Program[i].addr = Config[i - 9][1]
  /\ \A i \in 10 .. 35 : Program[i].val = Config[i - 9][2]
<1> DEFINE C == [i \in DOMAIN Config |-> [op |-> "write", addr |-> Config[i][1],
                                          val |-> Config[i][2]]]
           P == setup_pll
           R == reset_adau1761
           I == P \o C
<1>1. C \in Seq(Calls) /\ Len(C) = 26
  <2>1. C \in [1 .. 26 -> Calls]
    BY ConfigShape DEF Calls, Op
  <2> QED
    BY <2>1
<1>2. \A i \in 1 .. 26 : /\ C[i].op = "write" /\ C[i].addr = Config[i][1]
                         /\ C[i].val = Config[i][2]
  BY ConfigShape
<1>3. P \in Seq(Calls) /\ Len(P) = 5 /\ R \in Seq(Calls) /\ Len(R) = 4
  BY PllShape, ResetShape
<1>4. Program = R \o I
  BY DEF Program, init_adau1761
<1> HIDE DEF C, P, R
<1>5. /\ I \in Seq(Calls) /\ Len(I) = 31
      /\ \A i \in 1 .. 5 : I[i] = P[i]
      /\ \A i \in 6 .. 31 : I[i] = C[i - 5]
  <2>1. /\ I \in Seq(Calls) /\ Len(I) = Len(P) + Len(C)
        /\ \A i \in 1 .. Len(P) + Len(C) :
             I[i] = IF i <= Len(P) THEN P[i] ELSE C[i - Len(P)]
    BY <1>1, <1>3, ConcatProperties
  <2> HIDE DEF I
  <2> QED
    BY <1>1, <1>3, <2>1
<1> HIDE DEF I
<1>6. /\ Program \in Seq(Calls) /\ Len(Program) = 35
      /\ \A i \in 1 .. 4 : Program[i] = R[i]
      /\ \A i \in 5 .. 35 : Program[i] = I[i - 4]
  <2>1. /\ Program \in Seq(Calls) /\ Len(Program) = Len(R) + Len(I)
        /\ \A i \in 1 .. Len(R) + Len(I) :
             Program[i] = IF i <= Len(R) THEN R[i] ELSE I[i - Len(R)]
    BY <1>3, <1>4, <1>5, ConcatProperties
  <2> QED
    BY <1>3, <1>5, <2>1
<1>7. ASSUME NEW i \in 1 .. 5 PROVE Program[i + 4] = P[i]
  <2>1. i + 4 \in 5 .. 35 /\ (i + 4) - 4 = i
    OBVIOUS
  <2>2. \A j \in 5 .. 35 : Program[j] = I[j - 4]
    BY <1>6
  <2>3. \A j \in 1 .. 5 : I[j] = P[j]
    BY <1>5
  <2>4. Program[i + 4] = I[(i + 4) - 4]
    BY <2>1, <2>2
  <2> QED
    BY <2>1, <2>3, <2>4
<1>8. ASSUME NEW i \in 10 .. 35
      PROVE  /\ Program[i].op = "write" /\ Program[i].addr = Config[i - 9][1]
             /\ Program[i].val = Config[i - 9][2]
  <2>1. /\ i \in 5 .. 35 /\ i - 4 \in 6 .. 31 /\ i - 9 \in 1 .. 26
        /\ (i - 4) - 5 = i - 9
    OBVIOUS
  <2>2. Program[i] = I[i - 4]
    BY <1>6, <2>1
  <2>3. I[i - 4] = C[(i - 4) - 5]
    BY <1>5, <2>1
  <2> QED
    BY <1>2, <2>1, <2>2, <2>3
<1> USE DEF P, R
<1> QED
  BY <1>6, <1>7, <1>8

\* The reset and the five calls of setup_pll, each with its place.
LEMMA ProgramHead ==
  /\ Program[1].op = "reset" /\ Program[1].addr = 0
  /\ \A i \in 2 .. 4 : Program[i].op = "read"
  /\ Program[5].op = "write" /\ Program[5].addr = \h4000 /\ Program[5].val = CoreOff
  /\ Program[6].op = "write" /\ Program[6].addr = \h4002 /\ Program[6].val = PllWord
  /\ Program[7].op = "poll" /\ Program[7].addr = \h4002
  /\ Program[8].op = "write" /\ Program[8].addr = \h4000 /\ Program[8].val = CoreOn
  /\ Program[9].op = "sleep"
<1>1. \A i \in 1 .. 4 : Program[i] = reset_adau1761[i]
  BY ProgramParts
<1>2. \A i \in 1 .. 5 : Program[i + 4] = setup_pll[i]
  BY ProgramParts
<1>3. Program[5] = setup_pll[1] /\ Program[6] = setup_pll[2] /\ Program[7] = setup_pll[3]
      /\ Program[8] = setup_pll[4] /\ Program[9] = setup_pll[5]
  BY <1>2, 1 + 4 = 5, 2 + 4 = 6, 3 + 4 = 7, 4 + 4 = 8, 5 + 4 = 9
<1>4. Program[1].op = "reset" /\ Program[1].addr = 0
  BY <1>1, ResetShape
<1>5. \A i \in 2 .. 4 : Program[i].op = "read"
  BY <1>1, ResetShape
<1> QED
  BY <1>3, <1>4, <1>5, PllShape

\* Where the program's reset, sleep and poll are; its fields' types.
LEMMA ProgramFacts ==
  /\ DOMAIN Program = 1 .. 35 /\ Done = 36
  /\ \A i \in 1 .. 35 : Program[i].op \in Op
  /\ \A i \in 1 .. 35 : Program[i].addr \in Addrs
  /\ \A i \in 1 .. 35 : Program[i].val \in Values
  /\ \A i \in 1 .. 35 : Program[i].op = "reset" <=> i = 1
  /\ \A i \in 1 .. 35 : Program[i].op = "sleep" <=> i = 9
  /\ \A i \in 1 .. 35 : Program[i].op = "poll" <=> i = 7
  /\ 0 \in Addrs /\ \h4000 \in Addrs /\ \h4002 \in Addrs
  /\ Values \subseteq Int
<1>1. DOMAIN Program = 1 .. 35 /\ Done = 36
  BY ProgramParts DEF Done
<1>2. \A i \in 1 .. 35 : /\ Program[i].addr \in Addrs /\ Program[i].val \in Values
  BY <1>1 DEF Addrs, Values
<1>3. \A i \in 1 .. 35 : \/ i \in {1, 2, 3, 4, 5, 6, 7, 8, 9} \/ i \in 10 .. 35
  OBVIOUS
<1>4. \A i \in 10 .. 35 : Program[i].op = "write"
  BY ProgramParts
<1>5. /\ Program[1].op = "reset" /\ Program[2].op = "read" /\ Program[3].op = "read"
      /\ Program[4].op = "read" /\ Program[5].op = "write" /\ Program[6].op = "write"
      /\ Program[7].op = "poll" /\ Program[8].op = "write" /\ Program[9].op = "sleep"
  BY ProgramHead
<1>6. \A i \in 1 .. 35 : Program[i].op \in Op
  BY <1>3, <1>4, <1>5 DEF Op
<1>7. /\ \A i \in 1 .. 35 : Program[i].op = "reset" <=> i = 1
      /\ \A i \in 1 .. 35 : Program[i].op = "sleep" <=> i = 9
      /\ \A i \in 1 .. 35 : Program[i].op = "poll" <=> i = 7
  BY <1>3, <1>4, <1>5
<1>8. 0 \in Addrs /\ \h4000 \in Addrs /\ \h4002 \in Addrs
  BY <1>2, ProgramHead, 1 \in 1 .. 35, 5 \in 1 .. 35, 6 \in 1 .. 35
<1>9. ASSUME NEW v \in Values PROVE v \in Int
  <2>1. PICK i \in 1 .. 35 : v = Program[i].val
    BY <1>1 DEF Values
  <2>2. Program \in Seq(Calls) /\ Len(Program) = 35
    BY ProgramParts
  <2>3. Program[i] \in Calls
    BY <2>2, ElementOfSeq
  <2> QED
    BY <2>1, <2>3 DEF Calls
<1> QED
  BY <1>1, <1>2, <1>6, <1>7, <1>8, <1>9

\* Which calls write the two registers of setup_pll.
LEMMA ClockWrites ==
  /\ \A i \in 1 .. 35 : Program[i].op = "write" /\ Program[i].addr = \h4000
                          <=> i \in {5, 8}
  /\ \A i \in 1 .. 35 : Program[i].op = "write" /\ Program[i].addr = \h4002
                          <=> i = 6
<1>1. \A i \in 1 .. 35 : \/ i \in {1, 2, 3, 4, 5, 6, 7, 8, 9} \/ i \in 10 .. 35
  OBVIOUS
<1>2. /\ \A i \in 10 .. 35 : Program[i].op = "write"
      /\ \A i \in 10 .. 35 : Program[i].addr = Config[i - 9][1]
      /\ \A i \in 10 .. 35 : i - 9 \in 1 .. 26
  BY ProgramParts
<1>3. \A i \in 10 .. 35 : Program[i].addr \notin {\h4000, \h4002}
  BY <1>2, ConfigShape
<1>4. /\ Program[1].op = "reset" /\ Program[2].op = "read"
      /\ Program[3].op = "read" /\ Program[4].op = "read"
      /\ Program[5].op = "write" /\ Program[6].op = "write"
      /\ Program[7].op = "poll" /\ Program[8].op = "write" /\ Program[9].op = "sleep"
      /\ Program[5].addr = \h4000 /\ Program[6].addr = \h4002
      /\ Program[8].addr = \h4000
  BY ProgramHead
<1> QED
  BY <1>1, <1>2, <1>3, <1>4

\* The core clock's register is written twice, every other register once.
LEMMA WrittenOnce ==
  ASSUME NEW i \in 1 .. 35, NEW j \in 1 .. 35, i < j,
         Program[i].op = "write", Program[j].op = "write",
         Program[i].addr = Program[j].addr
  PROVE  i = 5 /\ j = 8
<1>1. \A k \in 1 .. 35 : k \notin 10 .. 35 => k \in {1, 2, 3, 4, 5, 6, 7, 8, 9}
  OBVIOUS
<1>2. /\ \A k \in 10 .. 35 : Program[k].addr = Config[k - 9][1]
      /\ \A k \in 10 .. 35 : k - 9 \in 1 .. 26
  BY ProgramParts
<1>3. \A k \in 10 .. 35 : Program[k].addr \notin {\h4000, \h4002}
  BY <1>2, ConfigShape
<1>4. \A k \in 1 .. 9 : Program[k].op = "write" => k \in {5, 6, 8}
  <2>1. /\ Program[1].op = "reset" /\ Program[2].op = "read"
        /\ Program[3].op = "read" /\ Program[4].op = "read"
        /\ Program[7].op = "poll" /\ Program[9].op = "sleep"
    BY ProgramHead
  <2> QED
    BY <1>1, <2>1
<1>5. CASE i \in 10 .. 35
  <2>1. j \in 10 .. 35
    BY <1>5
  <2>2. Config[i - 9][1] = Config[j - 9][1] /\ i - 9 \in 1 .. 26 /\ j - 9 \in 1 .. 26
    BY <1>2, <1>5, <2>1
  <2>3. i - 9 = j - 9
    BY <2>2, ConfigDistinct
  <2> QED
    BY <2>3
<1>6. CASE i \notin 10 .. 35
  <2>1. i \in {5, 6, 8}
    BY <1>1, <1>4, <1>6
  <2>2. /\ Program[5].addr = \h4000 /\ Program[6].addr = \h4002
        /\ Program[8].addr = \h4000
    BY ProgramHead
  <2>3. Program[j].addr \in {\h4000, \h4002}
    BY <2>1, <2>2
  <2>4. j \in {5, 6, 8}
    BY <1>1, <1>3, <1>4, <2>3
  <2> QED
    BY <2>1, <2>2, <2>4
<1> QED
  BY <1>5, <1>6

\* Where a call begins.
LEMMA FirstPhases ==
  ASSUME NEW i \in 1 .. 36
  PROVE  /\ FirstPhase(i) \in {"low", "ctrl", "assert", "sleep"}
         /\ i \in 1 .. 35 /\ Program[i].op = "write" => FirstPhase(i) = "low"
         /\ i \in 1 .. 35 /\ Program[i].op \in {"read", "poll"}
              => FirstPhase(i) = "ctrl"
         /\ i \in 1 .. 35 /\ Program[i].op = "reset" => FirstPhase(i) = "assert"
         /\ i \in 1 .. 35 /\ Program[i].op = "sleep" => FirstPhase(i) = "sleep"
<1>1. CASE i = 36
  BY <1>1, ProgramFacts DEF FirstPhase
<1>2. CASE i \in 1 .. 35
  <2>1. i \in DOMAIN Program /\ Program[i].op \in Op
    BY <1>2, ProgramFacts
  <2> QED
    BY <1>2, <2>1 DEF FirstPhase, Op
<1> QED
  BY <1>1, <1>2

-----------------------------------------------------------------------------
(***************************************************************************)
(* The inductive invariant.                                                *)
(***************************************************************************)
\* The bus access is one of the call's.
Fits ==
  Running =>
    /\ Now.op = "write" => phase \in {"low", "high", "ctrl", "start", "busy"}
    /\ Now.op \in {"read", "poll"} => phase \in {"ctrl", "start", "busy", "data"}
    /\ Now.op = "reset" => phase \in {"assert", "release"}
    /\ Now.op = "sleep" => phase = "sleep"

\* The controller's registers hold the call's words once they are written.
Loaded ==
  /\ At({"write"}, "high") => low = Now.val
  /\ \A p \in {"ctrl", "start", "busy"} :
       At({"write"}, p) => low = Now.val /\ high = Now.val
  /\ At({"write", "read", "poll"}, "start") => ctrl = ControlWord(FALSE)
  /\ At({"write", "read", "poll"}, "busy") => ctrl = ControlWord(TRUE)

\* A transfer is the running call's, or one a killed process left behind: the
\* new process is still before its reset.
OneTransfer ==
  busy => \/ line = 0
          \/ At({"reset"}, "assert")
          \/ At({"write", "read", "poll"}, "busy")

\* A transfer to the codec carries one value; it does not switch the core clock
\* on before the PLL is locked, nor set up the PLL with the core clock on.
InFlight ==
  busy /\ ~ctrl.read =>
    /\ low = high
    /\ ctrl.addr = \h4000 /\ low = CoreOn => locked
    /\ ctrl.addr = \h4002 => codec[\h4000] # CoreOn

\* The running process has written call i's register.
Past(i) ==
  /\ Program[i].op = "write"
  /\ i < line \/ (i = line /\ phase = "busy" /\ ~busy)

\* Every register written keeps its value; the first write of the core clock's
\* register counts until the second begins.
Settled ==
  \A i \in DOMAIN Program :
    Past(i) /\ (i = 5 => line < 8) => codec[Program[i].addr] = Program[i].val

\* The poll leaves its loop only after the PLL has locked.
LockSeen ==
  /\ line = 7 /\ seen /\ (phase = "data" \/ (phase = "busy" /\ ~busy)) => locked
  /\ line >= 8 => locked

IInv ==
  /\ TypeOK /\ Fits /\ Loaded /\ OneTransfer /\ InFlight /\ Settled /\ LockSeen
  /\ CoreClockNeedsLock

\* What a leaf of the step proofs may look at: the control of the driver.
LEMMA Control ==
  ASSUME IInv
  PROVE  /\ line \in 0 .. 36
         /\ Running <=> line \in 1 .. 35
         /\ Running => /\ Now.op \in Op /\ Now.addr \in Addrs /\ Now.val \in Values
                       /\ Now.op = "reset" <=> line = 1
                       /\ Now.op = "poll" <=> line = 7
                       /\ Now.op = "sleep" <=> line = 9
BY ProgramFacts DEF IInv, TypeOK, Running, Now

\* The call that follows starts at its first access.
LEMMA Returning ==
  ASSUME IInv, Running, Return
  PROVE  /\ line' = line + 1 /\ line' \in 2 .. 36 /\ seen' = seen
         /\ phase' \in {"low", "ctrl", "assert", "sleep"}
         /\ Running' => line' \in 1 .. 35 /\ Now'.op # "reset"
         /\ Running' /\ Now'.op = "write" => phase' = "low"
         /\ Running' /\ Now'.op \in {"read", "poll"} => phase' = "ctrl"
         /\ Running' /\ Now'.op = "sleep" => phase' = "sleep"
<1>1. line \in 1 .. 35
  BY Control
<1>2. line' = line + 1 /\ line' \in 2 .. 36 /\ phase' = FirstPhase(line') /\ seen' = seen
  BY <1>1 DEF Return
<1>3. /\ Running' <=> line' \in 1 .. 35
      /\ Now' = Program[line']
  BY ProgramFacts DEF Running, Now
<1>4. line' \in 1 .. 36 /\ line' # 1
  BY <1>2
<1>5. line' \in 1 .. 35 => Program[line'].op # "reset"
  BY <1>4, ProgramFacts
<1> HIDE DEF Now
<1> QED
  BY <1>2, <1>3, <1>4, <1>5, FirstPhases

\* The types hold initially and every step keeps them.
LEMMA TypeStep ==
  ASSUME IInv, [Next]_vars
  PROVE  TypeOK'
<1> USE Control DEF IInv, At, driver, bus, device
<1>1. CASE WriteLow
  BY <1>1 DEF WriteLow, TypeOK, GoTo
<1>2. CASE WriteHigh
  BY <1>2 DEF WriteHigh, TypeOK, GoTo
<1>3. CASE WriteControl
  BY <1>3 DEF WriteControl, TypeOK, GoTo, ControlWord
<1>4. CASE RaiseStart
  BY <1>4 DEF RaiseStart, TypeOK, GoTo, ControlWord
<1>5. CASE BusyWait
  BY <1>5, ProgramFacts, Returning DEF BusyWait, TypeOK, GoTo
<1>6. CASE TakeData
  BY <1>6, ProgramFacts, Returning DEF TakeData, TypeOK, GoTo
<1>7. CASE AssertReset
  <2>1. ctrl' \in [read : BOOLEAN, addr : Addrs, start : BOOLEAN]
    BY <1>7, ProgramFacts DEF AssertReset
  <2> QED
    BY <1>7, <2>1 DEF AssertReset, TypeOK, GoTo
<1>8. CASE ReleaseReset
  BY <1>8, ProgramFacts, Returning DEF ReleaseReset, TypeOK
<1>9. CASE Sleep
  BY <1>9, ProgramFacts, Returning DEF Sleep, TypeOK
<1>10. CASE FinishWrite
  <2>1. Shifted \in Values \cup {Unset, Mangled}
    BY DEF TypeOK, Shifted
  <2>2. codec' \in [Addrs -> Values \cup {Unset, Mangled}]
    BY <1>10, <2>1 DEF FinishWrite, TypeOK
  <2> DEFINE b == locked /\ ctrl.addr # \h4002
  <2>3. busy' = FALSE /\ locked' = b
    BY <1>10 DEF FinishWrite
  <2>4. b \in BOOLEAN
    OBVIOUS
  <2> HIDE DEF b
  <2>5. busy' \in BOOLEAN /\ locked' \in BOOLEAN
    BY <2>3, <2>4
  <2> QED
    BY <1>10, <2>2, <2>5 DEF FinishWrite, TypeOK
<1>11. CASE FinishRead
  <2> DEFINE b == ctrl.addr = \h4002 /\ locked
  <2>1. busy' = FALSE /\ seen' = b
    BY <1>11 DEF FinishRead
  <2>2. b \in BOOLEAN
    OBVIOUS
  <2> HIDE DEF b
  <2>3. busy' \in BOOLEAN /\ seen' \in BOOLEAN
    BY <2>1, <2>2
  <2> QED
    BY <1>11, <2>3 DEF FinishRead, TypeOK
<1>12. CASE Lock
  BY <1>12 DEF Lock, TypeOK
<1>13. CASE Launch
  BY <1>13, ProgramFacts, FirstPhases DEF Launch, TypeOK
<1>14. CASE Kill
  BY <1>14, ProgramFacts DEF Kill, TypeOK
<1>15. CASE UNCHANGED vars
  BY <1>15 DEF vars, TypeOK
<1> QED
  BY <1>1, <1>2, <1>3, <1>4, <1>5, <1>6, <1>7, <1>8, <1>9, <1>10, <1>11, <1>12,
      <1>13, <1>14, <1>15 DEF Next, Driver

\* Every step leaves the driver at an access of its call.
LEMMA FitsStep ==
  ASSUME IInv, [Next]_vars, TypeOK'
  PROVE  Fits'
<1> USE Control DEF IInv, At, driver, bus, device
<1>1. CASE WriteLow
  BY <1>1 DEF WriteLow, Fits, Now, GoTo
<1>2. CASE WriteHigh
  BY <1>2 DEF WriteHigh, Fits, Now, GoTo
<1>3. CASE WriteControl
  BY <1>3 DEF WriteControl, Fits, Now, GoTo
<1>4. CASE RaiseStart
  BY <1>4 DEF RaiseStart, Fits, Now, GoTo
<1>5. CASE BusyWait
  BY <1>5, Returning DEF BusyWait, Fits, Now, GoTo
<1>6. CASE TakeData
  BY <1>6, Returning DEF TakeData, Fits, Now, GoTo
<1>7. CASE AssertReset
  BY <1>7 DEF AssertReset, Fits, Now, GoTo
<1>8. CASE ReleaseReset
  BY <1>8, Returning DEF ReleaseReset, Fits
<1>9. CASE Sleep
  BY <1>9, Returning DEF Sleep, Fits
<1>10. CASE FinishWrite
  BY <1>10 DEF FinishWrite, Fits, Running, Now
<1>11. CASE FinishRead
  BY <1>11 DEF FinishRead, Fits, Running, Now
<1>12. CASE Lock
  BY <1>12 DEF Lock, Fits, Running, Now
<1>13. CASE Launch
  BY <1>13, FirstPhases DEF Launch, Fits, Now
<1>14. CASE Kill
  BY <1>14, ProgramFacts DEF Kill, Fits, Running
<1>15. CASE UNCHANGED vars
  BY <1>15 DEF vars, Fits, Running, Now
<1> QED
  BY <1>1, <1>2, <1>3, <1>4, <1>5, <1>6, <1>7, <1>8, <1>9, <1>10, <1>11, <1>12,
      <1>13, <1>14, <1>15 DEF Next, Driver

\* Every step keeps the words a call has written.
LEMMA LoadedStep ==
  ASSUME IInv, [Next]_vars, TypeOK'
  PROVE  Loaded'
<1> USE Control DEF IInv, At, driver, bus, device
<1>1. CASE WriteLow
  BY <1>1 DEF WriteLow, Loaded, Now, GoTo
<1>2. CASE WriteHigh
  BY <1>2 DEF WriteHigh, Loaded, Now, GoTo
<1>3. CASE WriteControl
  BY <1>3 DEF WriteControl, Loaded, Now, ControlWord, GoTo
<1>4. CASE RaiseStart
  BY <1>4 DEF RaiseStart, Loaded, Now, ControlWord, GoTo
<1>5. CASE BusyWait
  BY <1>5, Returning DEF BusyWait, Loaded, ControlWord, GoTo
<1>6. CASE TakeData
  BY <1>6, Returning DEF TakeData, Loaded, Now, ControlWord, GoTo
<1>7. CASE AssertReset
  BY <1>7 DEF AssertReset, Loaded, GoTo
<1>8. CASE ReleaseReset
  BY <1>8, Returning DEF ReleaseReset, Loaded, ControlWord
<1>9. CASE Sleep
  BY <1>9, Returning DEF Sleep, Loaded, ControlWord
<1>10. CASE FinishWrite
  BY <1>10 DEF FinishWrite, Loaded, Running, Now, ControlWord
<1>11. CASE FinishRead
  BY <1>11 DEF FinishRead, Loaded, Running, Now, ControlWord
<1>12. CASE Lock
  BY <1>12 DEF Lock, Loaded, Running, Now, ControlWord
<1>13. CASE Launch
  BY <1>13, ProgramFacts, FirstPhases DEF Launch, Loaded, ControlWord
<1>14. CASE Kill
  BY <1>14 DEF Kill, Loaded
<1>15. CASE UNCHANGED vars
  BY <1>15 DEF vars, Loaded, Running, Now, ControlWord
<1> QED
  BY <1>1, <1>2, <1>3, <1>4, <1>5, <1>6, <1>7, <1>8, <1>9, <1>10, <1>11, <1>12,
      <1>13, <1>14, <1>15 DEF Next, Driver

\* Every step keeps the transfer the running call's own.
LEMMA OneTransferStep ==
  ASSUME IInv, [Next]_vars, TypeOK'
  PROVE  OneTransfer'
<1> USE Control DEF IInv, At, driver, bus, device
<1>1. CASE WriteLow
  BY <1>1 DEF WriteLow, OneTransfer
<1>2. CASE WriteHigh
  BY <1>2 DEF WriteHigh, OneTransfer
<1>3. CASE WriteControl
  BY <1>3 DEF WriteControl, OneTransfer
<1>4. CASE RaiseStart
  BY <1>4 DEF RaiseStart, OneTransfer, Running, Now, GoTo
<1>5. CASE BusyWait
  BY <1>5 DEF BusyWait, OneTransfer
<1>6. CASE TakeData
  BY <1>6 DEF TakeData, OneTransfer
<1>7. CASE AssertReset
  BY <1>7 DEF AssertReset, OneTransfer
<1>8. CASE ReleaseReset
  BY <1>8 DEF ReleaseReset, OneTransfer
<1>9. CASE Sleep
  BY <1>9 DEF Sleep, OneTransfer
<1>10. CASE FinishWrite
  BY <1>10 DEF FinishWrite, OneTransfer
<1>11. CASE FinishRead
  BY <1>11 DEF FinishRead, OneTransfer
<1>12. CASE Lock
  BY <1>12 DEF Lock, OneTransfer, Running, Now
<1>13. CASE Launch
  BY <1>13, ProgramFacts, FirstPhases DEF Launch, OneTransfer, Running, Now
<1>14. CASE Kill
  BY <1>14 DEF Kill, OneTransfer
<1>15. CASE UNCHANGED vars
  BY <1>15 DEF vars, OneTransfer, Running, Now
<1> QED
  BY <1>1, <1>2, <1>3, <1>4, <1>5, <1>6, <1>7, <1>8, <1>9, <1>10, <1>11, <1>12,
      <1>13, <1>14, <1>15 DEF Next, Driver

\* Every step keeps the pending transfer whole and in order.
LEMMA InFlightStep ==
  ASSUME IInv, [Next]_vars, TypeOK'
  PROVE  InFlight'
<1> USE Control DEF IInv, At, driver, bus, device
<1>1. CASE WriteLow
  BY <1>1 DEF WriteLow, InFlight, OneTransfer
<1>2. CASE WriteHigh
  BY <1>2 DEF WriteHigh, InFlight, OneTransfer
<1>3. CASE WriteControl
  BY <1>3 DEF WriteControl, InFlight, OneTransfer
<1>4. CASE RaiseStart
  BY <1>4, ProgramFacts, ClockWrites, ProgramHead DEF RaiseStart, InFlight, Now,
      Loaded, Settled, Past, LockSeen, CoreOff, CoreOn, ControlWord
<1>5. CASE BusyWait
  BY <1>5 DEF BusyWait, InFlight
<1>6. CASE TakeData
  BY <1>6 DEF TakeData, InFlight
<1>7. CASE AssertReset
  BY <1>7 DEF AssertReset, InFlight
<1>8. CASE ReleaseReset
  BY <1>8 DEF ReleaseReset, InFlight, OneTransfer
<1>9. CASE Sleep
  BY <1>9 DEF Sleep, InFlight
<1>10. CASE FinishWrite
  BY <1>10 DEF FinishWrite, InFlight
<1>11. CASE FinishRead
  BY <1>11 DEF FinishRead, InFlight
<1>12. CASE Lock
  BY <1>12 DEF Lock, InFlight
<1>13. CASE Launch
  BY <1>13 DEF Launch, InFlight
<1>14. CASE Kill
  BY <1>14 DEF Kill, InFlight
<1>15. CASE UNCHANGED vars
  BY <1>15 DEF vars, InFlight
<1> QED
  BY <1>1, <1>2, <1>3, <1>4, <1>5, <1>6, <1>7, <1>8, <1>9, <1>10, <1>11, <1>12,
      <1>13, <1>14, <1>15 DEF Next, Driver

\* Every step keeps the registers the process has written.
LEMMA SettledStep ==
  ASSUME IInv, [Next]_vars, TypeOK'
  PROVE  Settled'
<1> USE Control DEF IInv, At, driver, bus, device
<1>1. CASE WriteLow
  BY <1>1 DEF WriteLow, Settled, Past, GoTo
<1>2. CASE WriteHigh
  BY <1>2 DEF WriteHigh, Settled, Past, GoTo
<1>3. CASE WriteControl
  BY <1>3 DEF WriteControl, Settled, Past, GoTo
<1>4. CASE RaiseStart
  <2>1. /\ At({"write", "read", "poll"}, "start")
        /\ busy' = (busy \/ ~ctrl.start) /\ codec' = codec /\ line' = line
    BY <1>4 DEF RaiseStart, GoTo
  <2>2. busy'
    <3>1. ctrl = ControlWord(FALSE)
      BY <2>1 DEF Loaded
    <3>2. ctrl.start = FALSE
      BY <3>1 DEF ControlWord
    <3> QED
      BY <2>1, <3>2
  <2>3. \A i \in DOMAIN Program : Past(i)' => Past(i)
    BY <2>1, <2>2 DEF Past
  <2> QED
    BY <2>1, <2>3 DEF Settled
<1>5. CASE BusyWait
  BY <1>5, ProgramFacts, Returning DEF BusyWait, Settled, Past, GoTo
<1>6. CASE TakeData
  BY <1>6, ProgramFacts, Returning DEF TakeData, Settled, Past, Now, GoTo
<1>7. CASE AssertReset
  BY <1>7 DEF AssertReset, Settled, Past, GoTo
<1>8. CASE ReleaseReset
  BY <1>8, ProgramFacts, Returning DEF ReleaseReset, Settled, Past
<1>9. CASE Sleep
  BY <1>9, ProgramFacts, Returning DEF Sleep, Settled, Past
<1>10. CASE FinishWrite
  <2> SUFFICES ASSUME NEW i \in 1 .. 35, Past(i)', i = 5 => line' < 8
               PROVE  codec'[Program[i].addr] = Program[i].val
    BY ProgramFacts DEF Settled
  <2>1. /\ busy /\ ~ctrl.read /\ line' = line /\ phase' = phase
        /\ codec' = [codec EXCEPT ![ctrl.addr] = Shifted]
        /\ codec \in [Addrs -> Values \cup {Unset, Mangled}]
        /\ Program[i].addr \in Addrs
    BY <1>10, ProgramFacts DEF FinishWrite, TypeOK
  <2>2. Program[i].op = "write" /\ i \in 1 .. line /\ line \in 0 .. 36
    BY <2>1 DEF Past
  <2>3. phase = "busy" /\ line \in 1 .. 35 /\ At({"write", "read", "poll"}, "busy")
    BY <2>1, <2>2, ProgramFacts DEF OneTransfer
  <2>4. ctrl = ControlWord(TRUE)
    BY <2>3 DEF Loaded
  <2>5. /\ Program[line].op = "write" /\ ctrl.addr = Program[line].addr
        /\ low = Program[line].val /\ high = low
    BY <2>1, <2>3, <2>4 DEF Loaded, ControlWord, Now
  <2>6. CASE i = line
    BY <2>1, <2>5, <2>6 DEF Shifted
  <2>7. CASE i < line
    <3>1. Program[i].addr # Program[line].addr
      <4>1. Program[i].addr = Program[line].addr => i = 5 /\ line = 8
        BY <2>2, <2>3, <2>5, <2>7, WrittenOnce
      <4> QED
        BY <2>1, <4>1
    <3>2. codec[Program[i].addr] = Program[i].val
      BY <2>1, <2>7, ProgramFacts DEF Settled, Past
    <3> QED
      BY <2>1, <2>5, <3>1, <3>2
  <2> QED
    BY <2>2, <2>6, <2>7
<1>11. CASE FinishRead
  BY <1>11, ProgramFacts DEF FinishRead, Settled, Past, Now, TypeOK, Loaded,
      ControlWord
<1>12. CASE Lock
  BY <1>12 DEF Lock, Settled, Past
<1>13. CASE Launch
  BY <1>13, ProgramFacts DEF Launch, Settled, Past
<1>14. CASE Kill
  BY <1>14, ProgramFacts DEF Kill, Settled, Past
<1>15. CASE UNCHANGED vars
  BY <1>15 DEF vars, Settled, Past
<1> QED
  BY <1>1, <1>2, <1>3, <1>4, <1>5, <1>6, <1>7, <1>8, <1>9, <1>10, <1>11, <1>12,
      <1>13, <1>14, <1>15 DEF Next, Driver

\* Every step keeps the PLL locked once the process has seen it.
LEMMA LockSeenStep ==
  ASSUME IInv, [Next]_vars, TypeOK'
  PROVE  LockSeen'
<1> USE Control DEF IInv, At, driver, bus, device
<1>1. CASE WriteLow
  BY <1>1 DEF WriteLow, LockSeen, GoTo
<1>2. CASE WriteHigh
  BY <1>2 DEF WriteHigh, LockSeen, GoTo
<1>3. CASE WriteControl
  BY <1>3 DEF WriteControl, LockSeen, GoTo
<1>4. CASE RaiseStart
  BY <1>4 DEF RaiseStart, LockSeen, Loaded, TypeOK, GoTo, ControlWord
<1>5. CASE BusyWait
  BY <1>5, Returning DEF BusyWait, LockSeen, GoTo
<1>6. CASE TakeData
  BY <1>6, Returning DEF TakeData, LockSeen, GoTo
<1>7. CASE AssertReset
  BY <1>7 DEF AssertReset, LockSeen, GoTo
<1>8. CASE ReleaseReset
  BY <1>8, Returning DEF ReleaseReset, LockSeen
<1>9. CASE Sleep
  BY <1>9 DEF Sleep, LockSeen
<1>10. CASE FinishWrite
  BY <1>10, ClockWrites DEF FinishWrite, LockSeen, Now, TypeOK, Loaded, OneTransfer,
      ControlWord
<1>11. CASE FinishRead
  BY <1>11 DEF FinishRead, LockSeen, TypeOK
<1>12. CASE Lock
  BY <1>12 DEF Lock, LockSeen
<1>13. CASE Launch
  BY <1>13 DEF Launch, LockSeen
<1>14. CASE Kill
  BY <1>14 DEF Kill, LockSeen
<1>15. CASE UNCHANGED vars
  BY <1>15 DEF vars, LockSeen
<1> QED
  BY <1>1, <1>2, <1>3, <1>4, <1>5, <1>6, <1>7, <1>8, <1>9, <1>10, <1>11, <1>12,
      <1>13, <1>14, <1>15 DEF Next, Driver

\* Every step keeps the core clock off until the PLL is locked.
LEMMA CoreClockStep ==
  ASSUME IInv, [Next]_vars, TypeOK'
  PROVE  CoreClockNeedsLock'
<1> USE Control DEF IInv, At, driver, bus, device
<1>1. CASE WriteLow
  BY <1>1 DEF WriteLow, CoreClockNeedsLock
<1>2. CASE WriteHigh
  BY <1>2 DEF WriteHigh, CoreClockNeedsLock
<1>3. CASE WriteControl
  BY <1>3 DEF WriteControl, CoreClockNeedsLock
<1>4. CASE RaiseStart
  BY <1>4 DEF RaiseStart, CoreClockNeedsLock
<1>5. CASE BusyWait
  BY <1>5 DEF BusyWait, CoreClockNeedsLock
<1>6. CASE TakeData
  BY <1>6 DEF TakeData, CoreClockNeedsLock
<1>7. CASE AssertReset
  BY <1>7 DEF AssertReset, CoreClockNeedsLock
<1>8. CASE ReleaseReset
  BY <1>8 DEF ReleaseReset, CoreClockNeedsLock
<1>9. CASE Sleep
  BY <1>9 DEF Sleep, CoreClockNeedsLock
<1>10. CASE FinishWrite
  BY <1>10 DEF FinishWrite, CoreClockNeedsLock, TypeOK, InFlight, Shifted
<1>11. CASE FinishRead
  BY <1>11 DEF FinishRead, CoreClockNeedsLock
<1>12. CASE Lock
  BY <1>12 DEF Lock, CoreClockNeedsLock
<1>13. CASE Launch
  BY <1>13 DEF Launch, CoreClockNeedsLock
<1>14. CASE Kill
  BY <1>14 DEF Kill, CoreClockNeedsLock
<1>15. CASE UNCHANGED vars
  BY <1>15 DEF vars, CoreClockNeedsLock
<1> QED
  BY <1>1, <1>2, <1>3, <1>4, <1>5, <1>6, <1>7, <1>8, <1>9, <1>10, <1>11, <1>12,
      <1>13, <1>14, <1>15 DEF Next, Driver

-----------------------------------------------------------------------------
(***************************************************************************)
(* The invariant and what follows from it.                                 *)
(***************************************************************************)
\* Nothing runs at first.
LEMMA InitIInv == Init => IInv
<1> SUFFICES ASSUME Init PROVE IInv
  OBVIOUS
<1>1. TypeOK
  <2>1. codec \in [Addrs -> Values \cup {Unset, Mangled}]
    BY DEF Init
  <2>2. ctrl \in [read : BOOLEAN, addr : Addrs, start : BOOLEAN]
    BY ProgramFacts DEF Init
  <2>3. line \in 0 .. Done /\ phase = "low"
    BY ProgramFacts DEF Init
  <2>4. low = Unset /\ high = Unset /\ busy = FALSE /\ seen = FALSE /\ locked = FALSE
    BY DEF Init
  <2> QED
    BY <2>1, <2>2, <2>3, <2>4 DEF TypeOK
<1>2. ~Running /\ line = 0 /\ ~busy
  BY ProgramFacts DEF Init, Running
<1>3. CoreClockNeedsLock
  BY ProgramFacts DEF Init, CoreClockNeedsLock, Unset, CoreOn
<1>4. Settled
  BY <1>2, ProgramFacts DEF Settled, Past
<1>5. Fits /\ Loaded
  BY <1>2 DEF Fits, Loaded, At
<1>6. OneTransfer /\ InFlight /\ LockSeen
  BY <1>2 DEF OneTransfer, InFlight, LockSeen
<1> QED
  BY <1>1, <1>3, <1>4, <1>5, <1>6 DEF IInv

\* The invariant is inductive.
LEMMA NextIInv == IInv /\ [Next]_vars => IInv'
BY TypeStep, FitsStep, LoadedStep, OneTransferStep, InFlightStep, SettledStep,
    LockSeenStep, CoreClockStep DEF IInv

\* IInv in every state.
THEOREM Invariance == Spec => []IInv
BY InitIInv, NextIInv, PTL DEF Spec

\* The registers of the controller and the codec only ever hold values the
\* driver's calls name, or the halves of two of them (write_adau1761).
THEOREM TypeCorrect == Spec => []TypeOK
<1>1. IInv => TypeOK
  BY DEF IInv
<1> QED
  BY <1>1, Invariance, PTL

\* The codec is never clocked from an unlocked PLL, wherever the process is
\* killed and however often it is started again (init_adau1761).
THEOREM CoreClockLocked == Spec => []CoreClockNeedsLock
<1>1. IInv => CoreClockNeedsLock
  BY DEF IInv
<1> QED
  BY <1>1, Invariance, PTL

\* When init_codec returns, all 28 registers hold the driver's values.
THEOREM Configured == Spec => []ConfiguredOnReturn
<1>1. ASSUME IInv, line = Done
      PROVE  /\ codec[\h4000] = CoreOn /\ codec[\h4002] = PllWord
             /\ \A i \in DOMAIN Config : codec[Config[i][1]] = Config[i][2]
  <2>2. \A i \in 1 .. 35 : Program[i].op = "write" /\ i # 5
          => codec[Program[i].addr] = Program[i].val
    BY <1>1, ProgramFacts DEF IInv, Settled, Past
  <2>3. codec[\h4000] = CoreOn /\ codec[\h4002] = PllWord
    BY <2>2, ProgramHead
  <2>4. ASSUME NEW i \in 1 .. 26 PROVE codec[Config[i][1]] = Config[i][2]
    <3>1. i + 9 \in 10 .. 35 /\ (i + 9) - 9 = i /\ i + 9 \in 1 .. 35 /\ i + 9 # 5
      OBVIOUS
    <3>2. /\ Program[i + 9].op = "write" /\ Program[i + 9].addr = Config[i][1]
          /\ Program[i + 9].val = Config[i][2]
      BY <3>1, ProgramParts
    <3> QED
      BY <2>2, <3>2
  <2> QED
    BY <2>3, <2>4, ConfigShape
<1>2. IInv => ConfiguredOnReturn
  BY <1>1 DEF ConfiguredOnReturn
<1> QED
  BY <1>2, Invariance, PTL

\* During a transfer no register of the controller is written, except by the
\* reset that aborts what a killed process left behind (write_adau1761,
\* read_adau1761, reset_adau1761).
THEOREM BusIsQuiet == Spec => QuietWhileBusy
<1>1. ASSUME IInv, [Next]_vars, busy, bus' # bus
      PROVE  At({"reset"}, "assert")
  <2>1. busy => line = 0 \/ At({"reset"}, "assert") \/ phase = "busy"
    BY <1>1 DEF IInv, OneTransfer, At
  <2>3. 0 \notin DOMAIN Program
    BY ProgramFacts
  <2>4. CASE WriteLow
    BY <1>1, <2>1, <2>3, <2>4 DEF WriteLow, At, Running
  <2>5. CASE WriteHigh
    BY <1>1, <2>1, <2>3, <2>5 DEF WriteHigh, At, Running
  <2>6. CASE WriteControl
    BY <1>1, <2>1, <2>3, <2>6 DEF WriteControl, At, Running
  <2>7. CASE RaiseStart
    BY <1>1, <2>1, <2>3, <2>7 DEF RaiseStart, At, Running
  <2>8. CASE ReleaseReset
    BY <1>1, <2>1, <2>3, <2>8 DEF ReleaseReset, At, Running
  <2>9. CASE AssertReset
    BY <2>9 DEF AssertReset
  <2>10. CASE \/ BusyWait \/ TakeData \/ Sleep \/ FinishWrite \/ FinishRead \/ Lock
              \/ Launch \/ Kill \/ UNCHANGED vars
    <3>1. UNCHANGED <<low, high, ctrl>>
      BY <2>10 DEF BusyWait, TakeData, Sleep, FinishWrite, FinishRead, Lock, Launch,
          Kill, vars, bus
    <3> QED
      BY <1>1, <3>1 DEF bus
  <2> QED
    BY <1>1, <2>4, <2>5, <2>6, <2>7, <2>8, <2>9, <2>10 DEF Next, Driver
<1>2. IInv /\ [Next]_vars => [busy /\ bus' # bus => At({"reset"}, "assert")]_vars
  BY <1>1
<1> QED
  BY <1>2, Invariance, PTL DEF Spec, QuietWhileBusy

=============================================================================
