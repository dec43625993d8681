---------------------------- MODULE HwRegisters -----------------------------
(***************************************************************************)
(* How a job gets into the registers of an engine and its status out of    *)
(* them: the driver (vdf_driver.cpp, chia_driver.cpp), the transfers       *)
(* (ftdi_driver.cpp), what the client asks for (hw_interface.cpp) and the  *)
(* emulator's end (emu_runner.cpp); and the clock and the voltage.         *)
(*                                                                         *)
(* Bytes are numbers below 2^ByteBits, memory is a sequence of them.  The  *)
(* addresses are the device's, the sizes are scaled.                       *)
(***************************************************************************)
EXTENDS Integers, Sequences, SequencesExt, FiniteSetsExt

CONSTANTS
  ByteBits,                       \* bits of a byte; a register has four bytes
  WordBits, RedundantBits,        \* bits of a coefficient, and of its place
  Coeffs1X, Coeffs2X, Coeffs4X,   \* coefficients of numbers of three sizes
  Count1X, Count2X, Count4X,      \* registers of such numbers
  Sizes,                          \* bytes of the transfers there are
  JobSetSize,                     \* bytes of the emulator's job_reg_set
  BurstHead,                      \* bytes of a burst before the first engine's
  Engines,                        \* number of engines
  MaxDivq                         \* bound: post-dividers in the table of clocks

RegBytes == 4
Byte == 2^ByteBits
Reg == Byte^RegBytes

-----------------------------------------------------------------------------
(* Numbers in registers.                                                   *)

\* A register is big endian, a longer integer has its low register first.
WriteReg(val) == [i \in 1 .. RegBytes |-> (val \div Byte^(RegBytes - i)) % Byte]
Write64(val) == WriteReg(val) \o WriteReg(val \div Reg)

\* Two's complement; the last coefficient is not masked, but is 32 bits.
CoeffsOf(v, n) ==
  LET u == IF v < 0 THEN 2^(n * WordBits + RedundantBits) + v ELSE v
  IN  [i \in 1 .. n |-> (u \div 2^(WordBits * (i - 1))) % (IF i < n THEN 2^WordBits ELSE Reg)]

WriteNumber(v, n, regs) ==
  LET packed == FoldRight(LAMBDA c, acc : c + acc * 2^RedundantBits, CoeffsOf(v, n), 0)
  IN  FlattenSeq([k \in 1 .. regs |-> WriteReg(packed \div Reg^(k - 1))])

RegAt(bytes, k) ==
  FoldLeft(LAMBDA acc, b : acc * Byte + b, 0, SubSeq(bytes, RegBytes * k + 1, RegBytes * (k + 1)))
Read64(bytes, k) == RegAt(bytes, k) + Reg * RegAt(bytes, k + 1)

\* Each coefficient is signed.
ReadNumber(bytes, k, n, regs) ==
  LET packed == FoldRight(LAMBDA j, acc : RegAt(bytes, k + j) + Reg * acc, [j \in 1 .. regs |-> j - 1], 0)
      coeff(i) == (packed \div 2^(RedundantBits * i)) % 2^RedundantBits
      value(c) == IF c >= 2^(RedundantBits - 1) THEN c - 2^RedundantBits ELSE c
  IN  FoldRight(LAMBDA i, acc : value(coeff(i)) + 2^WordBits * acc, [i \in 1 .. n |-> i - 1], 0)

-----------------------------------------------------------------------------
(* The engine's registers, by their index from the job's, and the status'. *)

CmdIterCount == 1
CmdA == CmdIterCount + 2
CmdF == CmdA + Count2X
CmdD == CmdF + Count2X
CmdL == CmdD + Count4X
CmdStart == CmdL + Count1X
CmdSize == RegBytes * (CmdStart + 1)

StatusIter == 1
StatusA == StatusIter + 2
StatusF == StatusA + Count2X
StatusSize == RegBytes * (StatusF + Count2X)

ControlAddr == 1048576       \* 0x100000
JobIdOffset == 4096          \* 0x1000
JobStatusOffset == 8192      \* 0x2000
EngineStride == 65536        \* 0x10000
BurstAddr == 3145728         \* 0x300000

JobAddr(e) == ControlAddr + EngineStride * e + JobIdOffset
StatusAddr(e) == ControlAddr + EngineStride * e + JobStatusOffset

\* The last register starts the job.
SerializeJob(job) ==
  WriteReg(job.id) \o Write64(job.iters) \o WriteNumber(job.a, Coeffs2X, Count2X) \o WriteNumber(job.f, Coeffs2X, Count2X)
  \o WriteNumber(job.d, Coeffs4X, Count4X) \o WriteNumber(job.l, Coeffs1X, Count1X) \o WriteReg(1)

DeserializeJob(bytes) ==
  [iters |-> Read64(bytes, StatusIter),
   a |-> ReadNumber(bytes, StatusA, Coeffs2X, Count2X), f |-> ReadNumber(bytes, StatusF, Coeffs2X, Count2X)]

PrepareJob(iters, d, a, f) ==
  [id |-> 171 % Reg, iters |-> iters, a |-> a, f |-> f, d |-> d, l |-> CHOOSE r \in 0 .. -d : r^4 <= -d /\ (r + 1)^4 > -d]

-----------------------------------------------------------------------------
(* Transfers.                                                              *)

Chunk == Max(Sizes)
RoundSizeUp(size) == Min({s \in Sizes : s >= size})

\* The buffer still holds what was written before, here "stale".
WriteCmd(addr, bytes, stale) ==
  [addr |-> (addr \div 4) * 4, data |-> bytes \o [i \in 1 .. RoundSizeUp(Len(bytes)) - Len(bytes) |-> stale]]

FtdiWrite(addr, bytes, stale) ==
  [k \in 1 .. (Len(bytes) + Chunk - 1) \div Chunk |->
     WriteCmd(addr + Chunk * (k - 1), SubSeq(bytes, Chunk * (k - 1) + 1, Min({Chunk * k, Len(bytes)})), stale)]

-----------------------------------------------------------------------------
(* The emulator.                                                           *)

\* init_state
JobIn(set) ==
  [iters |-> Read64(set, CmdIterCount), a |-> ReadNumber(set, CmdA, Coeffs2X, Count2X),
   f |-> ReadNumber(set, CmdF, Coeffs2X, Count2X), d |-> ReadNumber(set, CmdD, Coeffs4X, Count4X),
   l |-> ReadNumber(set, CmdL, Coeffs1X, Count1X)]

StartByte == RegBytes * (CmdStart + 1)

\* No job is to be started, whatever else the registers hold.
BlankSet(rubbish) ==
  [set |-> [i \in 1 .. JobSetSize |-> IF i = StartByte THEN 0 ELSE rubbish], started |-> <<>>, inside |-> TRUE]

\* A write into the job's registers of engine e; a set start flag starts the
\* job and is cleared.  s is [set, started, inside].
EmuDoWrite(s, e, cmd) ==
  LET offset == cmd.addr - JobAddr(e)
      set == [i \in DOMAIN s.set |-> IF i - offset \in DOMAIN cmd.data THEN cmd.data[i - offset] ELSE s.set[i]]
  IN  IF offset \notin 0 .. JobSetSize - 1 THEN s
      ELSE [set |-> [set EXCEPT ![StartByte] = 0],
            started |-> IF set[StartByte] % 2 = 1 THEN Append(s.started, JobIn(set)) ELSE s.started,
            inside |-> s.inside /\ offset + Len(cmd.data) <= JobSetSize]

\* Reading the job ID register updates the status.
Updated(addr, size) ==
  {e \in 0 .. Engines - 1 : \/ StatusAddr(e) \in addr .. addr + size - 1
                            \/ BurstAddr + BurstHead + StatusSize * e \in addr .. addr + size - 1}

UpdateStatus(st) ==
  WriteReg(0) \o Write64(st.iters) \o WriteNumber(st.a, Coeffs2X, Count2X) \o WriteNumber(st.f, Coeffs2X, Count2X)

\* Zeros before and behind what there is.
CopyRegs(src, size, offset) == [i \in 1 .. size |-> IF i + offset \in DOMAIN src THEN src[i + offset] ELSE 0]

\* regs: the status registers of the engines before the reading, states: where
\* the engines are.
ReadRegs(addr, size, regs, states) ==
  LET now == [e \in 1 .. Engines |-> IF e - 1 \in Updated(addr, size) THEN UpdateStatus(states[e - 1]) ELSE regs[e]]
      e == (addr - StatusAddr(0)) \div EngineStride
  IN  IF addr + size > StatusAddr(0) /\ addr < StatusAddr(Engines)
      THEN CopyRegs(now[e + 1], size, addr - StatusAddr(e))
      ELSE IF addr + size > BurstAddr + BurstHead /\ addr < BurstAddr + BurstHead + StatusSize * Engines
      THEN CopyRegs(FlattenSeq(now), size, addr - BurstAddr - BurstHead)
      ELSE [i \in 1 .. size |-> 0]

FtdiRead(addr, size, regs, states) == SubSeq(ReadRegs(addr, RoundSizeUp(size), regs, states), 1, size)

\* read_hw_status: the first engine's status comes with the sensors' registers.
ReadHwStatus(e, regs, states) ==
  IF e = 0 THEN DeserializeJob(SubSeq(FtdiRead(BurstAddr, BurstHead + StatusSize, regs, states), BurstHead + 1, BurstHead + StatusSize))
  ELSE DeserializeJob(FtdiRead(StatusAddr(e), StatusSize, regs, states))

-----------------------------------------------------------------------------
(* The clock: 200 (divfi + 1) / ((divr + 1) (divq + 1)) MHz.               *)

PllEntry == [divr : 0 .. 9, divfi : 2 .. 148, divq : 0 .. MaxDivq]

\* All dividers for which the oscillator runs at 1200 to 6000 MHz.
PllEntries == {e \in PllEntry : 400 * (e.divfi + 1) \in 1200 * (e.divr + 1) .. 6000 * (e.divr + 1)}

Slower(e, g) == (e.divfi + 1) * (g.divr + 1) * (g.divq + 1) < (g.divfi + 1) * (e.divr + 1) * (e.divq + 1)
AtLeast(e, mhz) == 200 * (e.divfi + 1) >= mhz * (e.divr + 1) * (e.divq + 1)

\* The first entry of the sorted table that is fast enough.
EntryFor(mhz) ==
  LET fast == {e \in PllEntries : AtLeast(e, mhz)} IN CHOOSE e \in fast : \A g \in fast : ~Slower(g, e)

\* In tenths of a MHz.
PllFilterRanges == <<75, 110, 180, 300, 500, 800, 1300, 2000>>

\* The reference is 100 / (divr + 1) MHz.
FilterRange(e) == Min({i \in 0 .. 7 : 1000 < PllFilterRanges[i + 1] * (e.divr + 1)})

\* The registers SetPLLFrequency leaves, by their addresses; the emulator
\* keeps them and reports the division as acknowledged and locked.
SetPLLFrequency(e) ==
  [addr \in {0, 4, 8, 16, 20} |->
     CASE addr = 0 -> WriteReg(0) [] addr = 4 -> WriteReg(e.divr) [] addr = 8 -> WriteReg(e.divfi)
       [] addr = 16 -> WriteReg(e.divq) [] addr = 20 -> WriteReg(FilterRange(e))]

\* The frequency as a fraction, 0 while the clock is held in reset and the
\* reference's when it is bypassed.
GetPLLFrequency(regs) ==
  LET control == RegAt(regs[0], 0)
  IN  IF (control \div 2) % 2 = 1 \/ (control \div 8) % 2 = 1 THEN <<100, 1>>
      ELSE IF control % 2 = 1 THEN <<0, 1>>
      ELSE <<400 * (RegAt(regs[8], 0) + 1), 2 * (RegAt(regs[4], 0) + 1) * (RegAt(regs[16], 0) + 1)>>

-----------------------------------------------------------------------------
(* The voltage, in units of 10 microvolts, as the regulator's 8-bit code.  *)

Vid(voltage) == ((voltage - 24375) \div 625) % 256
VidIsLegal(vid) == vid \in 41 .. 121
VoltageOf(vid) == 24375 + 625 * vid
=============================================================================
