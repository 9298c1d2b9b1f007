--------------------------- MODULE LineInput_proofs -------------------------
(***************************************************************************)
(* What LineInput keeps, for any ring, line length, window and texts, and  *)
(* any number of lines and commands.  Its types; the end of the jogs that  *)
(* are cancelled; that what is executed is a line as it was sent; and that *)
(* the count of the sender is enough for no character to be lost.          *)
(*                                                                         *)
(* The stream since the last cancel is a sequence s of places in lines, of *)
(* which the main loop has read k: both are found for every state (Body).  *)
(***************************************************************************)
EXTENDS LineInput, FiniteSetTheorems, SequenceTheorems, TLAPS

-----------------------------------------------------------------------------
(* The ring.                                                               *)

LEMMA RingMod ==
    \A i \in Nat : i < Ring + Ring => i % Ring = IF i < Ring THEN i ELSE i - Ring
<1>1. Ring \in Nat /\ Ring >= 2
  BY LineInputAssumption
<1> QED BY <1>1

LEMMA NextIs ==
    \A i \in Cell : Next1(i) = (IF i + 1 = Ring THEN 0 ELSE i + 1) /\ Next1(i) \in Cell
<1>1. Ring \in Nat /\ Ring >= 2
  BY LineInputAssumption
<1>2. ASSUME NEW i \in Cell PROVE Next1(i) = (IF i + 1 = Ring THEN 0 ELSE i + 1) /\ Next1(i) \in Cell
  <2>1. i \in Nat /\ i + 1 \in Nat /\ i + 1 < Ring + Ring /\ i + 1 <= Ring
    BY <1>1 DEF Cell
  <2>2. (i + 1) % Ring = IF i + 1 < Ring THEN i + 1 ELSE (i + 1) - Ring
    BY <2>1, RingMod
  <2> HIDE DEF Cell
  <2>3. Next1(i) = IF i + 1 = Ring THEN 0 ELSE i + 1
    BY <1>1, <2>1, <2>2 DEF Next1
  <2> QED BY <1>1, <2>1, <2>3 DEF Cell
<1> QED BY <1>2

\* how far cell j is ahead of cell i
Dist(i, j) == IF i <= j THEN j - i ELSE j + Ring - i

LEMMA DistIs ==
    \A i, j \in Cell : /\ Dist(i, j) \in 0..(Ring - 1) /\ (Dist(i, j) = 0 <=> i = j)
                       /\ i # j => Dist(Next1(i), j) = Dist(i, j) - 1
                       /\ Next1(j) # i => Dist(i, Next1(j)) = Dist(i, j) + 1
                       /\ Next1(j) = i <=> Dist(i, j) = Ring - 1
                       /\ Dist(i, Next1(i)) = 1
                       /\ \A k \in Cell : Dist(k, j) = Dist(i, j) => k = i
<1>1. Ring \in Nat /\ Ring >= 2
  BY LineInputAssumption
<1>2. ASSUME NEW i \in Cell, NEW j \in Cell
      PROVE  /\ Dist(i, j) \in 0..(Ring - 1) /\ (Dist(i, j) = 0 <=> i = j)
             /\ i # j => Dist(Next1(i), j) = Dist(i, j) - 1
             /\ Next1(j) # i => Dist(i, Next1(j)) = Dist(i, j) + 1
             /\ Next1(j) = i <=> Dist(i, j) = Ring - 1
             /\ Dist(i, Next1(i)) = 1
             /\ \A k \in Cell : Dist(k, j) = Dist(i, j) => k = i
  <2>1. /\ Next1(i) = IF i + 1 = Ring THEN 0 ELSE i + 1
        /\ Next1(j) = IF j + 1 = Ring THEN 0 ELSE j + 1
    BY NextIs
  <2>2. i \in Nat /\ j \in Nat /\ i < Ring /\ j < Ring
    BY <1>1 DEF Cell
  <2>3. ASSUME NEW k \in Cell, Dist(k, j) = Dist(i, j) PROVE k = i
    BY <1>1, <2>2, <2>3 DEF Cell, Dist
  <2>4. /\ Dist(i, j) \in 0..(Ring - 1) /\ (Dist(i, j) = 0 <=> i = j)
        /\ i # j => Dist(Next1(i), j) = Dist(i, j) - 1
        /\ Next1(j) # i => Dist(i, Next1(j)) = Dist(i, j) + 1
    BY <1>1, <2>1, <2>2 DEF Dist
  <2>5. /\ Next1(j) = i <=> Dist(i, j) = Ring - 1
        /\ Dist(i, Next1(i)) = 1
    BY <1>1, <2>1, <2>2 DEF Dist
  <2> QED BY <2>3, <2>4, <2>5
<1> QED BY <1>2

-----------------------------------------------------------------------------
(* Types.                                                                  *)

RingT == data \in [Cell -> CharSet] /\ head \in Cell /\ tail \in Cell /\ lost \in BOOLEAN
MainT == /\ pc \in {"read", "tail", "char", "count", "check", "end", "execute", "block", "answer",
                    "idle", "resume", "reinit"}
         /\ c \in CharSet /\ reg \in Nat
         /\ pc = "tail" => reg \in Cell
         /\ pc = "count" => reg \in 1..LineMax
LineT == /\ line \in [1..LineMax -> CharSet] /\ char_counter \in 0..LineMax
         /\ eol \in {"none", "LF", "CR"} /\ overflow \in BOOLEAN /\ keep_rt_commands \in BOOLEAN
RunT == run \in Seq(CharSet) /\ (pc = "block" => run # <<>>)
MachineT == /\ state \in {"IDLE", "JOG"} /\ jog \in 0..MaxLines /\ last_error \in BOOLEAN
            /\ flags \subseteq {"RESET", "STOP", "MOTION_CANCEL"}
            /\ aborted \subseteq {"abort", "cancel"}
Unanswered == Nat \X Nat
SenderT == /\ out \in Seq(CharSet) /\ sent \in 0..MaxLines /\ unacked \in Seq(Unanswered)
           /\ waiting \in BOOLEAN /\ commands \in Nat
           /\ cancelled \in Nat /\ cancelled <= sent
AnswersT == answers \in [1..MaxLines -> Nat]

TInv == RingT /\ MainT /\ LineT /\ RunT /\ MachineT /\ SenderT /\ AnswersT

LEMMA TInvTypeOK == TInv => TypeOK
BY DEF TInv, TypeOK, RingT, MainT, LineT, RunT, MachineT, AnswersT

LEMMA CharIs == \A g \in Glyph, n \in 0..MaxLines :
                   Char(g, n) \in CharSet /\ Char(g, n).g = g /\ Char(g, n).line = n
BY DEF Char, CharSet

LEMMA CanIs == Can \in CharSet /\ Can.g = "CAN" /\ Can.line = 0
BY CharIs, LineInputAssumption DEF Can, Glyph

LEMMA Wires ==
    ASSUME NEW t \in Texts
    PROVE  t \in Seq(Glyph) /\ Eol \in Seq(Glyph) /\ t \o Eol \in Seq(Glyph)
<1>1. t \in Seq(Glyph) /\ Eol \in Seq({"LF", "CR"})
  BY LineInputAssumption
<1>2. \A i \in 1..Len(Eol) : Eol[i] \in Glyph
  BY <1>1 DEF Glyph
<1>3. Eol \in Seq(Glyph)
  BY <1>1, <1>2
<1> QED BY <1>1, <1>3

LEMMA PutTyped ==
    ASSUME RingT, NEW ch \in CharSet, Put(ch)
    PROVE  RingT'
BY NextIs DEF Put, RingT

LEMMA TInvInit ==
    ASSUME Init
    PROVE  TInv
<1>1. Ring \in Nat /\ Ring >= 2 /\ LineMax \in Nat \ {0} /\ MaxLines \in Nat
  BY LineInputAssumption
<1>2. Can \in CharSet
  BY CanIs
<1>3. RingT
  <2>1. 0 \in Cell
    BY <1>1 DEF Cell
  <2> QED BY <1>2, <2>1 DEF Init, RingT
<1>4. MainT
  BY <1>2 DEF Init, MainT
<1>5. RunT
  BY DEF Init, RunT
<1>6. LineT
  <2>1. line \in [1..LineMax -> CharSet]
    BY <1>2 DEF Init
  <2>2. char_counter \in 0..LineMax
    BY <1>1 DEF Init
  <2> QED BY <2>1, <2>2 DEF Init, LineT
<1>7. MachineT /\ AnswersT
  <2>1. 0 \in 0..MaxLines
    BY <1>1
  <2> QED BY <2>1 DEF Init, MachineT, AnswersT
<1>8. SenderT
  <2>1. out \in Seq(CharSet) /\ unacked \in Seq(Unanswered)
    BY DEF Init
  <2>2. sent = 0 /\ commands = 0 /\ cancelled = 0 /\ waiting \in BOOLEAN
    BY DEF Init
  <2> QED BY <1>1, <2>1, <2>2 DEF SenderT
<1> QED BY <1>3, <1>4, <1>5, <1>6, <1>7, <1>8 DEF TInv

\* The sender and the interrupt.
LEMMA TInvInterrupts ==
    ASSUME TInv
    PROVE  /\ Receive => TInv'
           /\ ReceiveHold => TInv'
           /\ ReceiveReset => TInv'
           /\ \A t \in Texts : BeginLine(t) => TInv'
           /\ \A k \in {"cancel", "stop"} : ReceiveCancel(k) => TInv'
           /\ JogEnds => TInv'
<1>0. /\ LineMax \in Nat \ {0} /\ MaxLines \in Nat /\ 0 \in 0..LineMax /\ LegacyRt \in BOOLEAN
      /\ RingT /\ MainT /\ LineT /\ RunT /\ MachineT /\ SenderT /\ AnswersT
  BY LineInputAssumption DEF TInv
<1>1. ASSUME Receive PROVE TInv'
  <2>1. Head(out) \in CharSet /\ Tail(out) \in Seq(CharSet)
    BY <1>0, <1>1 DEF Receive, SenderT
  <2>10. RingT'
    BY <1>0, <1>1, <2>1, PutTyped DEF Receive
  <2>11. MainT'
    BY <1>0, <1>1 DEF Receive, MainT
  <2>12. LineT'
    BY <1>0, <1>1 DEF Receive, LineT
  <2>13. RunT'
    BY <1>0, <1>1 DEF Receive, RunT
  <2>14. MachineT'
    BY <1>0, <1>1 DEF Receive, MachineT, machine
  <2>15. SenderT'
    BY <1>0, <1>1, <2>1 DEF Receive, SenderT
  <2>16. AnswersT'
    BY <1>0, <1>1 DEF Receive, AnswersT
  <2> QED BY <2>10, <2>11, <2>12, <2>13, <2>14, <2>15, <2>16 DEF TInv
<1>2. ASSUME ReceiveHold PROVE TInv'
  <2>10. RingT'
    <3>1. Char("!", sent) \in CharSet
      BY <1>0, CharIs DEF SenderT, Glyph
    <3>2. UNCHANGED ring \/ Put(Char("!", sent))
      BY <1>2 DEF ReceiveHold
    <3> QED BY <1>0, <3>1, <3>2, PutTyped DEF RingT, ring
  <2>11. MainT'
    BY <1>0, <1>2 DEF ReceiveHold, MainT
  <2>12. LineT'
    BY <1>0, <1>2 DEF ReceiveHold, LineT, assembly
  <2>13. RunT'
    BY <1>0, <1>2 DEF ReceiveHold, RunT
  <2>14. MachineT'
    BY <1>0, <1>2 DEF ReceiveHold, MachineT, machine
  <2>15. SenderT'
    BY <1>0, <1>2 DEF ReceiveHold, SenderT, Command
  <2>16. AnswersT'
    BY <1>0, <1>2 DEF ReceiveHold, AnswersT
  <2> QED BY <2>10, <2>11, <2>12, <2>13, <2>14, <2>15, <2>16 DEF TInv
<1>3. ASSUME ReceiveReset PROVE TInv'
  <2>10. RingT'
    BY <1>0, <1>3 DEF ReceiveReset, RingT, ring
  <2>11. MainT'
    BY <1>0, <1>3 DEF ReceiveReset, MainT
  <2>12. LineT'
    BY <1>0, <1>3 DEF ReceiveReset, LineT, assembly
  <2>13. RunT'
    BY <1>0, <1>3 DEF ReceiveReset, RunT
  <2>14. MachineT'
    BY <1>0, <1>3 DEF ReceiveReset, MachineT, machine
  <2>15. SenderT'
    BY <1>0, <1>3 DEF ReceiveReset, Forget, SenderT, Command
  <2>16. AnswersT'
    BY <1>0, <1>3 DEF ReceiveReset, AnswersT
  <2> QED BY <2>10, <2>11, <2>12, <2>13, <2>14, <2>15, <2>16 DEF TInv
<1>4. ASSUME NEW t \in Texts, BeginLine(t) PROVE TInv'
  <2>10. RingT'
    BY <1>0, <1>4 DEF BeginLine, RingT, ring
  <2>11. MainT'
    BY <1>0, <1>4 DEF BeginLine, MainT
  <2>12. LineT'
    BY <1>0, <1>4 DEF BeginLine, LineT, assembly
  <2>13. RunT'
    BY <1>0, <1>4 DEF BeginLine, RunT
  <2>14. MachineT'
    BY <1>0, <1>4 DEF BeginLine, MachineT, machine
  <2>15. SenderT'
    <3>1. t \o Eol \in Seq(Glyph) /\ Len(t \o Eol) \in Nat
      BY Wires
    <3>2. sent + 1 \in 0..MaxLines /\ sent + 1 \in Nat /\ cancelled <= sent + 1
      BY <1>0, <1>4 DEF BeginLine, SenderT
    <3>3. \A i \in 1..Len(t \o Eol) : Char((t \o Eol)[i], sent + 1) \in CharSet
      <4>1. \A i \in 1..Len(t \o Eol) : (t \o Eol)[i] \in Glyph
        BY <3>1
      <4> QED BY <3>2, <4>1, CharIs
    <3>4. out' \in Seq(CharSet)
      BY <1>4, <3>1, <3>3 DEF BeginLine
    <3>5. unacked' \in Seq(Unanswered)
      <4>1. <<sent + 1, Len(t \o Eol)>> \in Unanswered
        BY <3>1, <3>2 DEF Unanswered
      <4> QED BY <1>0, <1>4, <4>1 DEF BeginLine, SenderT
    <3> QED BY <1>0, <1>4, <3>2, <3>4, <3>5 DEF BeginLine, SenderT
  <2>16. AnswersT'
    BY <1>0, <1>4 DEF BeginLine, AnswersT
  <2> QED BY <2>10, <2>11, <2>12, <2>13, <2>14, <2>15, <2>16 DEF TInv
<1>5. ASSUME NEW k \in {"cancel", "stop"}, ReceiveCancel(k) PROVE TInv'
  <2>10. RingT'
    <3>1. /\ data' = [data EXCEPT ![head] = Can] /\ head' = Next1(head) /\ tail' = head
          /\ lost' = lost
      BY <1>5 DEF ReceiveCancel, CancelRead
    <3> QED BY <1>0, <3>1, CanIs, NextIs DEF RingT
  <2>11. MainT'
    BY <1>0, <1>5 DEF ReceiveCancel, MainT
  <2>12. LineT'
    BY <1>0, <1>5 DEF ReceiveCancel, LineT, assembly
  <2>13. RunT'
    BY <1>0, <1>5 DEF ReceiveCancel, RunT
  <2>14. MachineT'
    BY <1>0, <1>5 DEF ReceiveCancel, MachineT, machine
  <2>15. SenderT'
    BY <1>0, <1>5 DEF ReceiveCancel, Forget, SenderT, Command
  <2>16. AnswersT'
    BY <1>0, <1>5 DEF ReceiveCancel, AnswersT
  <2> QED BY <2>10, <2>11, <2>12, <2>13, <2>14, <2>15, <2>16 DEF TInv
<1>6. ASSUME JogEnds PROVE TInv'
  <2>10. RingT'
    BY <1>0, <1>6 DEF JogEnds, RingT, ring
  <2>11. MainT'
    BY <1>0, <1>6 DEF JogEnds, MainT
  <2>12. LineT'
    BY <1>0, <1>6 DEF JogEnds, LineT, assembly
  <2>13. RunT'
    BY <1>0, <1>6 DEF JogEnds, RunT
  <2>14. MachineT'
    BY <1>0, <1>6 DEF JogEnds, MachineT, machine
  <2>15. SenderT'
    BY <1>0, <1>6 DEF JogEnds, SenderT, sender
  <2>16. AnswersT'
    BY <1>0, <1>6 DEF JogEnds, AnswersT
  <2> QED BY <2>10, <2>11, <2>12, <2>13, <2>14, <2>15, <2>16 DEF TInv
<1> QED BY <1>1, <1>2, <1>3, <1>4, <1>5, <1>6

LEMMA Served ==
    ASSUME MachineT, Serve
    PROVE  MachineT'
BY DEF MachineT, Serve

\* Reading and assembling a line.
LEMMA TInvReading ==
    ASSUME TInv, Read \/ ReadTail \/ CharCan \/ CharEol \/ CharErase \/ CharStore \/ CharCount
    PROVE  TInv'
<1>0. /\ LineMax \in Nat \ {0} /\ MaxLines \in Nat /\ 0 \in 0..LineMax
      /\ RingT /\ MainT /\ LineT /\ RunT /\ MachineT /\ SenderT /\ AnswersT
  BY LineInputAssumption DEF TInv
<1>1. CASE Read
  <2>10. RingT'
    BY <1>0, <1>1 DEF Read, RingT, uMain
  <2>11. MainT'
    <3>1. data[tail] \in CharSet /\ Next1(tail) \in Cell
      BY <1>0, NextIs DEF RingT
    <3>2. reg' \in Nat /\ (pc' = "tail" => reg' \in Cell) /\ c' \in CharSet
      BY <1>0, <1>1, <3>1 DEF Read, MainT, Cell
    <3> QED BY <1>1, <3>2 DEF Read, MainT
  <2>12. LineT'
    BY <1>0, <1>1 DEF Read, LineT, assembly, uMain
  <2>13. RunT'
    BY <1>0, <1>1 DEF Read, RunT, uMain
  <2>14. MachineT'
    BY <1>0, <1>1 DEF Read, MachineT, machine, uMain
  <2>15. SenderT'
    BY <1>0, <1>1 DEF Read, SenderT, sender, uMain
  <2>16. AnswersT'
    BY <1>0, <1>1 DEF Read, AnswersT, uMain
  <2> QED BY <2>10, <2>11, <2>12, <2>13, <2>14, <2>15, <2>16 DEF TInv
<1>2. CASE ReadTail
  <2>10. RingT'
    BY <1>0, <1>2 DEF ReadTail, MainT, RingT, uMain
  <2>11. MainT'
    BY <1>0, <1>2 DEF ReadTail, MainT, uMain
  <2>12. LineT'
    BY <1>0, <1>2 DEF ReadTail, LineT, assembly, uMain
  <2>13. RunT'
    BY <1>0, <1>2 DEF ReadTail, RunT, uMain
  <2>14. MachineT'
    BY <1>0, <1>2 DEF ReadTail, MachineT, machine, uMain
  <2>15. SenderT'
    BY <1>0, <1>2 DEF ReadTail, SenderT, sender, uMain
  <2>16. AnswersT'
    BY <1>0, <1>2 DEF ReadTail, AnswersT, uMain
  <2> QED BY <2>10, <2>11, <2>12, <2>13, <2>14, <2>15, <2>16 DEF TInv
<1>3. CASE CharCan
  <2>10. RingT'
    BY <1>0, <1>3 DEF CharCan, RingT, uMain
  <2>11. MainT'
    BY <1>0, <1>3 DEF CharCan, MainT, uMain
  <2>12. LineT'
    BY <1>0, <1>3 DEF CharCan, LineT, assembly, uMain
  <2>13. RunT'
    BY <1>0, <1>3 DEF CharCan, RunT, uMain
  <2>14. MachineT'
    BY <1>0, <1>3 DEF CharCan, MachineT, machine, uMain
  <2>15. SenderT'
    BY <1>0, <1>3 DEF CharCan, SenderT, sender, uMain
  <2>16. AnswersT'
    BY <1>0, <1>3 DEF CharCan, AnswersT, uMain
  <2> QED BY <2>10, <2>11, <2>12, <2>13, <2>14, <2>15, <2>16 DEF TInv
<1>4. CASE CharEol
  <2>10. RingT'
    BY <1>0, <1>4 DEF CharEol, RingT, uMain, IsEol
  <2>11. MainT'
    BY <1>0, <1>4 DEF CharEol, MainT, uMain, IsEol
  <2>12. LineT'
    BY <1>0, <1>4 DEF CharEol, LineT, assembly, uMain, IsEol
  <2>13. RunT'
    BY <1>0, <1>4 DEF CharEol, RunT, uMain, IsEol
  <2>14. MachineT'
    BY <1>0, <1>4 DEF CharEol, MachineT, machine, uMain, IsEol
  <2>15. SenderT'
    BY <1>0, <1>4 DEF CharEol, SenderT, sender, uMain, IsEol
  <2>16. AnswersT'
    BY <1>0, <1>4 DEF CharEol, AnswersT, uMain, IsEol
  <2> QED BY <2>10, <2>11, <2>12, <2>13, <2>14, <2>15, <2>16 DEF TInv
<1>5. CASE CharErase
  <2>10. RingT'
    BY <1>0, <1>5 DEF CharErase, RingT, uMain
  <2>11. MainT'
    BY <1>0, <1>5 DEF CharErase, MainT, uMain
  <2>12. LineT'
    <3>1. char_counter' \in 0..LineMax
      BY <1>0, <1>5 DEF CharErase, LineT
    <3>2. overflow' \in BOOLEAN /\ keep_rt_commands' \in BOOLEAN
      BY <1>0, <1>5 DEF CharErase, LineT
    <3> QED BY <1>0, <1>5, <3>1, <3>2 DEF CharErase, LineT
  <2>13. RunT'
    BY <1>0, <1>5 DEF CharErase, RunT, uMain
  <2>14. MachineT'
    BY <1>0, <1>5 DEF CharErase, MachineT, machine, uMain
  <2>15. SenderT'
    BY <1>0, <1>5 DEF CharErase, SenderT, sender, uMain
  <2>16. AnswersT'
    BY <1>0, <1>5 DEF CharErase, AnswersT, uMain
  <2> QED BY <2>10, <2>11, <2>12, <2>13, <2>14, <2>15, <2>16 DEF TInv
<1>6. CASE CharStore
  <2>10. RingT'
    BY <1>0, <1>6 DEF CharStore, RingT, uMain, Full
  <2>11. MainT'
    BY <1>0, <1>6 DEF CharStore, MainT, Full, LineT
  <2>12. LineT'
    BY <1>0, <1>6 DEF CharStore, MainT, Full, LineT
  <2>13. RunT'
    BY <1>0, <1>6 DEF CharStore, RunT, uMain, Full
  <2>14. MachineT'
    BY <1>0, <1>6 DEF CharStore, MachineT, machine, uMain, Full
  <2>15. SenderT'
    BY <1>0, <1>6 DEF CharStore, SenderT, sender, uMain, Full
  <2>16. AnswersT'
    BY <1>0, <1>6 DEF CharStore, AnswersT, uMain, Full
  <2> QED BY <2>10, <2>11, <2>12, <2>13, <2>14, <2>15, <2>16 DEF TInv
<1>7. CASE CharCount
  <2>10. RingT'
    BY <1>0, <1>7 DEF CharCount, RingT, uMain
  <2>11. MainT'
    BY <1>0, <1>7 DEF CharCount, MainT, uMain
  <2>12. LineT'
    BY <1>0, <1>7 DEF CharCount, MainT, LineT
  <2>13. RunT'
    BY <1>0, <1>7 DEF CharCount, RunT, uMain
  <2>14. MachineT'
    BY <1>0, <1>7 DEF CharCount, MachineT, machine, uMain
  <2>15. SenderT'
    BY <1>0, <1>7 DEF CharCount, SenderT, sender, uMain
  <2>16. AnswersT'
    BY <1>0, <1>7 DEF CharCount, AnswersT, uMain
  <2> QED BY <2>10, <2>11, <2>12, <2>13, <2>14, <2>15, <2>16 DEF TInv
<1> QED BY <1>1, <1>2, <1>3, <1>4, <1>5, <1>6, <1>7

\* Executing a line.
LEMMA TInvExecuting ==
    ASSUME TInv, \/ Check \/ EndLine \/ ExecuteOverflow \/ ExecuteEmpty \/ ExecuteRefused \/ Execute
                 \/ Wait \/ FinishJog \/ FinishBlock
    PROVE  TInv'
<1>0. /\ LineMax \in Nat \ {0} /\ MaxLines \in Nat /\ 0 \in 0..LineMax
      /\ RingT /\ MainT /\ LineT /\ RunT /\ MachineT /\ SenderT /\ AnswersT
  BY LineInputAssumption DEF TInv
<1>1. CASE Check
  <2>10. RingT'
    BY <1>0, <1>1 DEF Check, RingT, uMain
  <2>11. MainT'
    BY <1>0, <1>1 DEF Check, MainT, uMain
  <2>12. LineT'
    BY <1>0, <1>1 DEF Check, LineT, assembly, uMain
  <2>13. RunT'
    BY <1>0, <1>1 DEF Check, RunT, uMain
  <2>14. MachineT'
    BY <1>0, <1>1, Served DEF Check
  <2>15. SenderT'
    BY <1>0, <1>1 DEF Check, SenderT, sender, uMain
  <2>16. AnswersT'
    BY <1>0, <1>1 DEF Check, AnswersT, uMain
  <2> QED BY <2>10, <2>11, <2>12, <2>13, <2>14, <2>15, <2>16 DEF TInv
<1>2. CASE EndLine
  <2>10. RingT'
    BY <1>0, <1>2 DEF EndLine, RingT, uMain
  <2>11. MainT'
    BY <1>0, <1>2 DEF EndLine, MainT, uMain
  <2>12. LineT'
    BY <1>0, <1>2 DEF EndLine, LineT, assembly, uMain
  <2>13. RunT'
    <3>1. char_counter \in Nat /\ \A i \in 1..char_counter : line[i] \in CharSet
      BY <1>0 DEF LineT
    <3> QED BY <1>2, <3>1 DEF EndLine, RunT
  <2>14. MachineT'
    BY <1>0, <1>2 DEF EndLine, MachineT, machine, uMain
  <2>15. SenderT'
    BY <1>0, <1>2 DEF EndLine, SenderT, sender, uMain
  <2>16. AnswersT'
    BY <1>0, <1>2 DEF EndLine, AnswersT, uMain
  <2> QED BY <2>10, <2>11, <2>12, <2>13, <2>14, <2>15, <2>16 DEF TInv
<1>3. CASE ExecuteOverflow
  <2>10. RingT'
    BY <1>0, <1>3 DEF ExecuteOverflow, RingT, uExecute, uLine, uMain, Goes
  <2>11. MainT'
    BY <1>0, <1>3 DEF ExecuteOverflow, MainT, uExecute, uLine, uMain, Goes
  <2>12. LineT'
    BY <1>0, <1>3 DEF ExecuteOverflow, LineT, assembly, uExecute, uLine, uMain, Goes
  <2>13. RunT'
    BY <1>0, <1>3 DEF ExecuteOverflow, RunT, uExecute, uLine, uMain, Goes
  <2>14. MachineT'
    BY <1>0, <1>3 DEF ExecuteOverflow, MachineT, machine, uExecute, uLine, uMain, Goes
  <2>15. SenderT'
    BY <1>0, <1>3 DEF ExecuteOverflow, SenderT, sender, uExecute, uLine, uMain, Goes
  <2>16. AnswersT'
    BY <1>0, <1>3 DEF ExecuteOverflow, AnswersT, uExecute, uLine, uMain, Goes
  <2> QED BY <2>10, <2>11, <2>12, <2>13, <2>14, <2>15, <2>16 DEF TInv
<1>4. CASE ExecuteEmpty
  <2>10. RingT'
    BY <1>0, <1>4 DEF ExecuteEmpty, RingT, uExecute, uLine, uMain, Goes
  <2>11. MainT'
    BY <1>0, <1>4 DEF ExecuteEmpty, MainT, uExecute, uLine, uMain, Goes
  <2>12. LineT'
    BY <1>0, <1>4 DEF ExecuteEmpty, LineT, assembly, uExecute, uLine, uMain, Goes
  <2>13. RunT'
    BY <1>0, <1>4 DEF ExecuteEmpty, RunT, uExecute, uLine, uMain, Goes
  <2>14. MachineT'
    BY <1>0, <1>4 DEF ExecuteEmpty, MachineT, machine, uExecute, uLine, uMain, Goes
  <2>15. SenderT'
    BY <1>0, <1>4 DEF ExecuteEmpty, SenderT, sender, uExecute, uLine, uMain, Goes
  <2>16. AnswersT'
    BY <1>0, <1>4 DEF ExecuteEmpty, AnswersT, uExecute, uLine, uMain, Goes
  <2> QED BY <2>10, <2>11, <2>12, <2>13, <2>14, <2>15, <2>16 DEF TInv
<1>5. CASE ExecuteRefused
  <2>10. RingT'
    BY <1>0, <1>5 DEF ExecuteRefused, RingT, uExecute, uLine, uMain, Goes
  <2>11. MainT'
    BY <1>0, <1>5 DEF ExecuteRefused, MainT, uExecute, uLine, uMain, Goes
  <2>12. LineT'
    BY <1>0, <1>5 DEF ExecuteRefused, LineT, assembly, uExecute, uLine, uMain, Goes
  <2>13. RunT'
    BY <1>0, <1>5 DEF ExecuteRefused, RunT, uExecute, uLine, uMain, Goes
  <2>14. MachineT'
    BY <1>0, <1>5 DEF ExecuteRefused, MachineT, machine, uExecute, uLine, uMain, Goes
  <2>15. SenderT'
    BY <1>0, <1>5 DEF ExecuteRefused, SenderT, sender, uExecute, uLine, uMain, Goes
  <2>16. AnswersT'
    BY <1>0, <1>5 DEF ExecuteRefused, AnswersT, uExecute, uLine, uMain, Goes
  <2> QED BY <2>10, <2>11, <2>12, <2>13, <2>14, <2>15, <2>16 DEF TInv
<1>6. CASE Execute
  <2>10. RingT'
    BY <1>0, <1>6 DEF Execute, RingT, uLine, uMain
  <2>11. MainT'
    BY <1>0, <1>6 DEF Execute, MainT, uLine, uMain
  <2>12. LineT'
    BY <1>0, <1>6 DEF Execute, LineT, assembly, uLine, uMain
  <2>13. RunT'
    BY <1>0, <1>6 DEF Execute, RunT, uLine, uMain
  <2>14. MachineT'
    BY <1>0, <1>6 DEF Execute, MachineT, machine, uLine, uMain
  <2>15. SenderT'
    BY <1>0, <1>6 DEF Execute, SenderT, sender, uLine, uMain
  <2>16. AnswersT'
    BY <1>0, <1>6 DEF Execute, AnswersT, uLine, uMain
  <2> QED BY <2>10, <2>11, <2>12, <2>13, <2>14, <2>15, <2>16 DEF TInv
<1>7. CASE Wait
  <2>10. RingT'
    BY <1>0, <1>7 DEF Wait, RingT, uLine, uMain
  <2>11. MainT'
    BY <1>0, <1>7 DEF Wait, MainT, uLine, uMain
  <2>12. LineT'
    BY <1>0, <1>7 DEF Wait, LineT, assembly, uLine, uMain
  <2>13. RunT'
    BY <1>0, <1>7 DEF Wait, RunT, uLine, uMain
  <2>14. MachineT'
    BY <1>0, <1>7, Served DEF Wait
  <2>15. SenderT'
    BY <1>0, <1>7 DEF Wait, SenderT, sender, uLine, uMain
  <2>16. AnswersT'
    BY <1>0, <1>7 DEF Wait, AnswersT, uLine, uMain
  <2> QED BY <2>10, <2>11, <2>12, <2>13, <2>14, <2>15, <2>16 DEF TInv
<1>8. CASE FinishJog
  <2>10. RingT'
    BY <1>0, <1>8 DEF FinishJog, RingT, uExecute, uLine, uMain, Goes
  <2>11. MainT'
    BY <1>0, <1>8 DEF FinishJog, MainT, uExecute, uLine, uMain, Goes
  <2>12. LineT'
    BY <1>0, <1>8 DEF FinishJog, LineT, assembly, uExecute, uLine, uMain, Goes
  <2>13. RunT'
    BY <1>0, <1>8 DEF FinishJog, RunT, uExecute, uLine, uMain, Goes
  <2>14. MachineT'
    <3>1. Head(run) \in CharSet
      BY <1>0, <1>8 DEF FinishJog, RunT
    <3>2. Head(run).line \in 0..MaxLines
      BY <3>1 DEF CharSet
    <3> QED BY <1>0, <1>8, <3>2 DEF FinishJog, MachineT, uExecute, Goes
  <2>15. SenderT'
    BY <1>0, <1>8 DEF FinishJog, SenderT, sender, uExecute, uLine, uMain, Goes
  <2>16. AnswersT'
    BY <1>0, <1>8 DEF FinishJog, AnswersT, uExecute, uLine, uMain, Goes
  <2> QED BY <2>10, <2>11, <2>12, <2>13, <2>14, <2>15, <2>16 DEF TInv
<1>9. CASE FinishBlock
  <2>10. RingT'
    BY <1>0, <1>9 DEF FinishBlock, RingT, uExecute, uLine, uMain, Goes
  <2>11. MainT'
    BY <1>0, <1>9 DEF FinishBlock, MainT, uExecute, uLine, uMain, Goes
  <2>12. LineT'
    BY <1>0, <1>9 DEF FinishBlock, LineT, assembly, uExecute, uLine, uMain, Goes
  <2>13. RunT'
    BY <1>0, <1>9 DEF FinishBlock, RunT, uExecute, uLine, uMain, Goes
  <2>14. MachineT'
    BY <1>0, <1>9 DEF FinishBlock, MachineT, machine, uExecute, uLine, uMain, Goes
  <2>15. SenderT'
    BY <1>0, <1>9 DEF FinishBlock, SenderT, sender, uExecute, uLine, uMain, Goes
  <2>16. AnswersT'
    BY <1>0, <1>9 DEF FinishBlock, AnswersT, uExecute, uLine, uMain, Goes
  <2> QED BY <2>10, <2>11, <2>12, <2>13, <2>14, <2>15, <2>16 DEF TInv
<1> QED BY <1>1, <1>2, <1>3, <1>4, <1>5, <1>6, <1>7, <1>8, <1>9

\* Answering a line, and back to the beginning.
LEMMA TInvAnswering ==
    ASSUME TInv, Answer \/ Idle \/ Resume \/ Reinit
    PROVE  TInv'
<1>0. /\ LineMax \in Nat \ {0} /\ MaxLines \in Nat /\ 0 \in 0..LineMax
      /\ RingT /\ MainT /\ LineT /\ RunT /\ MachineT /\ SenderT /\ AnswersT
  BY LineInputAssumption DEF TInv
<1>1. CASE Answer
  <2>10. RingT'
    BY <1>0, <1>1 DEF Answer, RingT, ring
  <2>11. MainT'
    BY <1>0, <1>1 DEF Answer, MainT, ring
  <2>12. LineT'
    BY <1>0, <1>1 DEF Answer, LineT, assembly, ring
  <2>13. RunT'
    BY <1>0, <1>1 DEF Answer, RunT, ring
  <2>14. MachineT'
    BY <1>0, <1>1 DEF Answer, MachineT, machine, ring
  <2>15. SenderT'
    <3>1. unacked' \in Seq(Unanswered)
      BY <1>0, <1>1 DEF Answer, SenderT
    <3> QED BY <1>0, <1>1, <3>1 DEF Answer, SenderT
  <2>16. AnswersT'
    BY <1>0, <1>1 DEF Answer, AnswersT, ring
  <2> QED BY <2>10, <2>11, <2>12, <2>13, <2>14, <2>15, <2>16 DEF TInv
<1>2. CASE Idle
  <2>10. RingT'
    BY <1>0, <1>2 DEF Idle, RingT, uLine, uMain
  <2>11. MainT'
    BY <1>0, <1>2 DEF Idle, MainT, uLine, uMain
  <2>12. LineT'
    BY <1>0, <1>2 DEF Idle, LineT, assembly, uLine, uMain
  <2>13. RunT'
    BY <1>0, <1>2 DEF Idle, RunT, uLine, uMain
  <2>14. MachineT'
    BY <1>0, <1>2, Served DEF Idle
  <2>15. SenderT'
    BY <1>0, <1>2 DEF Idle, SenderT, sender, uLine, uMain
  <2>16. AnswersT'
    BY <1>0, <1>2 DEF Idle, AnswersT, uLine, uMain
  <2> QED BY <2>10, <2>11, <2>12, <2>13, <2>14, <2>15, <2>16 DEF TInv
<1>3. CASE Resume
  <2>10. RingT'
    BY <1>0, <1>3 DEF Resume, RingT, uLine, uMain
  <2>11. MainT'
    BY <1>0, <1>3 DEF Resume, MainT, uLine, uMain
  <2>12. LineT'
    BY <1>0, <1>3 DEF Resume, LineT, assembly, uLine, uMain
  <2>13. RunT'
    BY <1>0, <1>3 DEF Resume, RunT, uLine, uMain
  <2>14. MachineT'
    BY <1>0, <1>3 DEF Resume, MachineT, machine, uLine, uMain
  <2>15. SenderT'
    BY <1>0, <1>3 DEF Resume, SenderT, sender, uLine, uMain
  <2>16. AnswersT'
    BY <1>0, <1>3 DEF Resume, AnswersT, uLine, uMain
  <2> QED BY <2>10, <2>11, <2>12, <2>13, <2>14, <2>15, <2>16 DEF TInv
<1>4. CASE Reinit
  <2>10. RingT'
    BY <1>0, <1>4 DEF Reinit, RingT
  <2>11. MainT'
    BY <1>0, <1>4 DEF Reinit, MainT
  <2>12. LineT'
    BY <1>0, <1>4 DEF Reinit, LineT, assembly
  <2>13. RunT'
    BY <1>0, <1>4 DEF Reinit, RunT
  <2>14. MachineT'
    BY <1>0, <1>4 DEF Reinit, MachineT, machine
  <2>15. SenderT'
    BY <1>0, <1>4 DEF Reinit, SenderT, sender
  <2>16. AnswersT'
    BY <1>0, <1>4 DEF Reinit, AnswersT
  <2> QED BY <2>10, <2>11, <2>12, <2>13, <2>14, <2>15, <2>16 DEF TInv
<1> QED BY <1>1, <1>2, <1>3, <1>4

LEMMA TInvNext ==
    ASSUME TInv, [Next]_vars
    PROVE  TInv'
<1>1. CASE UNCHANGED vars
  BY <1>1 DEF vars, TInv, RingT, MainT, LineT, RunT, MachineT, SenderT, AnswersT, ring, assembly,
              machine, sender
<1> QED BY <1>1, TInvInterrupts, TInvReading, TInvExecuting, TInvAnswering DEF Next, MainStep

\* Every variable keeps its type, whatever is sent and whenever it is interrupted.
THEOREM TypeCorrect == Spec => []TypeOK
<1>1. Init => TInv
  BY TInvInit
<1>2. TInv /\ [Next]_vars => TInv'
  BY TInvNext
<1> QED BY <1>1, <1>2, TInvTypeOK, PTL DEF Spec

-----------------------------------------------------------------------------
(* What the main loop is going to read: from the cell after the one that   *)
(* serialRead has loaded, if its store of the tail is still to come.       *)

From == IF pc = "tail" THEN reg ELSE tail
Unread == Dist(From, head)

LEMMA FromIs ==
    ASSUME TInv
    PROVE  From \in Cell /\ head \in Cell /\ Unread \in 0..(Ring - 1) /\ Ring \in Nat /\ Ring >= 2
<1>1. From \in Cell /\ head \in Cell /\ Ring \in Nat /\ Ring >= 2
  BY LineInputAssumption DEF From, TInv, RingT, MainT
<1> QED BY <1>1, DistIs DEF Unread

\* The interrupt comes round the ring to the cell that is going to be the tail.
Overtakes == pc = "tail" /\ head' # head /\ head' = reg

\* A character that arrives: all others are one cell further from the head.
LEMMA Arrives ==
    ASSUME TInv, NEW ch, data' = [data EXCEPT ![head] = ch], head' = Next1(head), head' # From,
           UNCHANGED <<pc, reg>>, From' = From
    PROVE  /\ Unread' = Unread + 1
           /\ head \in Cell /\ data'[head] = ch /\ Dist(head, head') = 1
           /\ \A i \in Cell : Dist(i, head) \in 1..Unread =>
                                 Dist(i, head') = Dist(i, head) + 1 /\ data'[i] = data[i]
           /\ \A i \in Cell : Dist(i, head') \in 1..Unread' =>
                                 \/ i = head
                                 \/ Dist(i, head') = Dist(i, head) + 1 /\ Dist(i, head) \in 1..Unread
                                       /\ data'[i] = data[i]
<1>1. From \in Cell /\ head \in Cell /\ head' \in Cell /\ Unread \in 0..(Ring - 1) /\ Ring \in Nat
  BY FromIs, NextIs
<1>2. Unread' = Dist(From, head')
  BY DEF Unread
<1>3. Unread' = Unread + 1 /\ Unread # Ring - 1
  BY <1>1, <1>2, DistIs DEF Unread
<1>4. data'[head] = ch /\ Dist(head, head') = 1
  BY <1>1, DistIs DEF TInv, RingT
<1>5. ASSUME NEW i \in Cell, Dist(i, head) \in 1..Unread
      PROVE  Dist(i, head') = Dist(i, head) + 1 /\ data'[i] = data[i]
  <2>1. Dist(i, head) # Ring - 1 /\ Dist(i, head) # 0
    BY <1>1, <1>3, <1>5
  <2>2. head' # i /\ i # head
    BY <1>1, <2>1, DistIs
  <2> QED BY <1>1, <2>2, DistIs DEF TInv, RingT
<1>6. ASSUME NEW i \in Cell, Dist(i, head') \in 1..Unread', i # head
      PROVE  Dist(i, head') = Dist(i, head) + 1 /\ Dist(i, head) \in 1..Unread /\ data'[i] = data[i]
  <2>1. head' # i
    BY <1>1, <1>6, DistIs
  <2>2. Dist(i, head') = Dist(i, head) + 1 /\ Dist(i, head) \in 0..(Ring - 1) /\ Dist(i, head) # 0
    BY <1>1, <1>6, <2>1, DistIs
  <2> QED BY <1>1, <1>3, <1>6, <2>2 DEF TInv, RingT
<1> QED BY <1>1, <1>3, <1>4, <1>5, <1>6

\* A cancel empties the ring, but for what the main loop has in hand.
LEMMA Empties ==
    ASSUME TInv, CancelRead, UNCHANGED <<pc, reg>>, ~Overtakes
    PROVE  /\ data' = [data EXCEPT ![head] = Can] /\ head' = Next1(head) /\ tail' = head
           /\ pc # "tail" => From' = head /\ Unread' = 1
           /\ pc = "tail" => From' = From /\ head' # From
           /\ head \in Cell /\ data'[head] = Can /\ Dist(head, head') = 1 /\ Unread' \in Nat /\ Unread' >= 1
           /\ \A i \in Cell : Dist(i, head') = 1 => i = head
<1>1. From \in Cell /\ head \in Cell /\ head' \in Cell /\ Unread \in 0..(Ring - 1) /\ Ring \in Nat
  BY FromIs, NextIs DEF CancelRead
<1>2. data' = [data EXCEPT ![head] = Can] /\ head' = Next1(head) /\ tail' = head
  BY DEF CancelRead
<1>3. data'[head] = Can /\ Dist(head, head') = 1 /\ head' # head
  BY <1>1, <1>2, DistIs DEF TInv, RingT
<1>4. \A i \in Cell : Dist(i, head') = 1 => i = head
  BY <1>1, <1>3, DistIs
<1>5. ASSUME pc # "tail" PROVE From' = head /\ Unread' = 1
  <2>1. From' = head
    BY <1>2, <1>5 DEF From
  <2> QED BY <1>3, <2>1 DEF Unread
<1>6. ASSUME pc = "tail" PROVE From' = From /\ head' # From /\ Unread' = Unread + 1
  <2>1. From' = From /\ From = reg
    BY <1>6 DEF From
  <2>2. head' # From
    BY <1>3, <1>6, <2>1 DEF Overtakes
  <2> QED BY <1>2, <2>1, <2>2, Arrives
<1>7. Unread' \in Nat /\ Unread' >= 1
  BY <1>1, <1>5, <1>6
<1> QED BY <1>1, <1>2, <1>3, <1>4, <1>5, <1>6, <1>7

-----------------------------------------------------------------------------
(* A jog sent before the last cancel is followed by its CAN character:     *)
(* unread, in hand, or served.                                             *)

Stale(ch, n) == ch.g = "$" /\ ch.line <= n
CanAhead(d, h, k) == \E j \in Cell : d[j] = Can /\ Dist(j, h) \in 1..k
CanUnread == CanAhead(data, head, Unread)
InHand == pc \in {"tail", "char"}
CanComing == CanUnread \/ (InHand /\ c = Can)
Quits == "RESET" \in flags \/ "abort" \in aborted \/ pc = "reinit"

CellsOK == \A i \in Cell : Dist(i, head) \in 1..Unread /\ Stale(data[i], cancelled) =>
                             CanAhead(data, head, Dist(i, head) - 1)
HandOK == InHand /\ Stale(c, cancelled) => CanUnread
LineOK == (pc = "count" \/ char_counter > 0) /\ Stale(line[1], cancelled) => CanComing
RunOK == pc \in {"execute", "block"} /\ run # <<>> /\ Stale(run[1], cancelled) => CanUnread
JogOK == state = "JOG" /\ jog <= cancelled =>
            CanComing \/ "STOP" \in flags \/ "MOTION_CANCEL" \in flags

TailOK == pc = "tail" =>
             /\ tail # head
             /\ Next1(tail) = reg \/ (data[tail] = Can /\ Dist(tail, head) \in 1..Unread)
OutOK == \A i \in 1..Len(out) : out[i].line > cancelled

JInv == /\ TInv /\ TailOK /\ OutOK
        /\ Quits \/ (CellsOK /\ HandOK /\ LineOK /\ RunOK /\ JogOK)

LEMMA CanNotStale == \A n : ~Stale(Can, n)
BY CanIs DEF Stale

LEMMA JInvInit == Init => JInv
<1> SUFFICES ASSUME Init PROVE JInv
  OBVIOUS
<1>1. TInv
  BY TInvInit
<1>2. Unread = 0
  BY <1>1, FromIs, DistIs DEF Init, From, Unread
<1>3. TailOK /\ OutOK
  BY DEF Init, TailOK, OutOK
<1>4. CellsOK
  BY <1>2 DEF CellsOK
<1>5. HandOK /\ LineOK /\ RunOK /\ JogOK
  BY DEF Init, HandOK, InHand, LineOK, RunOK, JogOK
<1> QED BY <1>1, <1>3, <1>4, <1>5 DEF JInv

\* A character that is not a stale "$" arrives.
LEMMA JPut ==
    ASSUME JInv, NEW ch \in CharSet, Put(ch), ~Stale(ch, cancelled), ~Overtakes,
           UNCHANGED <<pc, c, reg, line, char_counter, run, state, jog, flags, aborted, cancelled>>,
           TInv', OutOK'
    PROVE  JInv'
<1>1. CASE UNCHANGED <<data, head, tail>>
  <2>1. From' = From
    BY <1>1 DEF From
  <2>2. Unread' = Unread
    BY <1>1, <2>1 DEF Unread
  <2>5. CellsOK' <=> CellsOK
    BY <1>1, <2>2 DEF CellsOK
  <2>6. CanUnread' <=> CanUnread
    BY <1>1, <2>2 DEF CanUnread
  <2>7. TailOK'
    BY <1>1, <2>2 DEF JInv, TailOK, Next1
  <2> QED BY <1>1, <2>5, <2>6, <2>7 DEF JInv, Quits, HandOK, LineOK, RunOK, JogOK, CanComing,
                                           InHand, Stale
<1>2. CASE ~UNCHANGED <<data, head, tail>>
  <2>1. /\ data' = [data EXCEPT ![head] = ch] /\ head' = Next1(head) /\ Next1(head) # tail
        /\ tail' = tail
    BY <1>2 DEF Put
  <2>2. TInv /\ head' # head
    BY <2>1, NextIs, LineInputAssumption DEF JInv, TInv, RingT, Cell
  <2>3. From' = From
    BY <2>1 DEF From
  <2>4. head' # From
    BY <2>1, <2>2 DEF From, Overtakes
  <2>5. /\ Unread' = Unread + 1 /\ head \in Cell /\ data'[head] = ch
        /\ \A i \in Cell : Dist(i, head) \in 1..Unread =>
                              Dist(i, head') = Dist(i, head) + 1 /\ data'[i] = data[i]
        /\ \A i \in Cell : Dist(i, head') \in 1..Unread' =>
                              \/ i = head
                              \/ Dist(i, head') = Dist(i, head) + 1 /\ Dist(i, head) \in 1..Unread
                                    /\ data'[i] = data[i]
    BY <2>1, <2>2, <2>3, <2>4, Arrives
  <2>6. Unread \in Nat
    BY <2>2, FromIs
  <2>7. ASSUME NEW k \in 0..Unread, CanAhead(data, head, k) PROVE CanAhead(data', head', k + 1)
    <3>1. PICK j \in Cell : data[j] = Can /\ Dist(j, head) \in 1..k
      BY <2>7 DEF CanAhead
    <3>2. Dist(j, head) \in 1..Unread /\ Dist(j, head) + 1 \in 1..(k + 1)
      BY <2>6, <3>1
    <3>3. data'[j] = Can /\ Dist(j, head') \in 1..(k + 1)
      BY <2>5, <3>1, <3>2
    <3> QED BY <3>3 DEF CanAhead, Cell
  <2>8. CanUnread => CanUnread'
    <3>1. Unread \in 0..Unread
      BY <2>6
    <3> QED BY <2>5, <2>7, <3>1 DEF CanUnread
  <2>9. CellsOK => CellsOK'
    <3> SUFFICES ASSUME CellsOK, NEW i \in Cell, Dist(i, head') \in 1..Unread', Stale(data'[i], cancelled')
                 PROVE  CanAhead(data', head', Dist(i, head') - 1)
      BY DEF CellsOK, Cell
    <3>2. i # head
      BY <2>5
    <3>3. Dist(i, head') = Dist(i, head) + 1 /\ Dist(i, head) \in 1..Unread /\ data'[i] = data[i]
      BY <2>5, <3>2
    <3>4. CanAhead(data, head, Dist(i, head) - 1)
      BY <3>3 DEF CellsOK
    <3>5. Dist(i, head) - 1 \in 0..Unread /\ (Dist(i, head) - 1) + 1 = Dist(i, head') - 1
      BY <2>6, <3>3
    <3>6. CanAhead(data', head', (Dist(i, head) - 1) + 1)
      BY <2>7, <3>4, <3>5
    <3> QED BY <3>5, <3>6
  <2>10. TailOK'
    <3> SUFFICES ASSUME pc = "tail", Next1(tail) # reg
                 PROVE  data'[tail] = Can /\ Dist(tail, head') \in 1..Unread'
      BY <2>1 DEF TailOK, Next1, JInv
    <3>1. data[tail] = Can /\ Dist(tail, head) \in 1..Unread /\ tail \in Cell
      BY DEF JInv, TailOK, TInv, RingT
    <3> QED BY <2>5, <2>6, <3>1
  <2> QED BY <2>8, <2>9, <2>10 DEF JInv, Quits, HandOK, LineOK, RunOK, JogOK, CanComing, InHand
<1> QED BY <1>1, <1>2

\* A cancel leaves a CAN ahead of everything.
LEMMA JCancel ==
    ASSUME JInv, CancelRead, ~Overtakes, UNCHANGED <<pc, reg>>, TInv', OutOK'
    PROVE  JInv'
<1>1. TInv
  BY DEF JInv
<1>2. /\ data' = [data EXCEPT ![head] = Can] /\ head' = Next1(head) /\ tail' = head
      /\ head \in Cell /\ data'[head] = Can /\ Dist(head, head') = 1 /\ Unread' \in Nat /\ Unread' >= 1
      /\ \A i \in Cell : Dist(i, head') = 1 => i = head
  BY <1>1, Empties
<1>3. \A k \in Nat : k >= 1 => CanAhead(data', head', k)
  BY <1>2 DEF CanAhead, Cell
<1>4. CanUnread'
  BY <1>2, <1>3 DEF CanUnread
<1>5. CellsOK'
  <2> SUFFICES ASSUME NEW i \in Cell, Dist(i, head') \in 1..Unread', Stale(data'[i], cancelled')
               PROVE  CanAhead(data', head', Dist(i, head') - 1)
    BY DEF CellsOK, Cell
  <2>2. Dist(i, head') # 1
    BY <1>2, CanNotStale
  <2>3. Dist(i, head') - 1 \in Nat /\ Dist(i, head') - 1 >= 1
    BY <1>2, <2>2
  <2> QED BY <1>3, <2>3
<1>6. TailOK'
  <2>1. Dist(head, head') # 0 /\ head' \in Cell
    BY <1>1, <1>2, NextIs
  <2>2. head # head'
    BY <1>2, <2>1, DistIs
  <2> QED BY <1>2, <2>2 DEF TailOK
<1> QED BY <1>4, <1>5, <1>6 DEF JInv, HandOK, LineOK, RunOK, JogOK, CanComing

\* Nothing moves in the ring.
LEMMA JSame ==
    ASSUME JInv, UNCHANGED <<data, head, tail, pc, c, reg, line, char_counter, run, state, jog, flags,
                             aborted, cancelled>>,
           TInv', OutOK'
    PROVE  JInv'
<1>1. Unread' = Unread
  BY DEF Unread, From
<1>2. (CellsOK' <=> CellsOK) /\ (CanUnread' <=> CanUnread)
  BY <1>1 DEF CellsOK, CanUnread
<1>3. TailOK'
  BY <1>1 DEF JInv, TailOK, Next1
<1> QED BY <1>2, <1>3 DEF JInv, Quits, HandOK, LineOK, RunOK, JogOK, CanComing, InHand

\* The sender and the interrupt.
LEMMA JInterrupts ==
    ASSUME JInv, TInv', ~Overtakes,
           \/ Receive \/ ReceiveHold \/ ReceiveReset \/ JogEnds
           \/ \E t \in Texts : BeginLine(t)
           \/ \E k \in {"cancel", "stop"} : ReceiveCancel(k)
    PROVE  JInv'
<1>0. TInv /\ OutOK /\ TailOK
  BY DEF JInv
<1>1. CASE Receive
  <2>1. /\ out \in Seq(CharSet) /\ out # <<>> /\ cancelled \in Nat
    BY <1>0, <1>1 DEF Receive, TInv, SenderT
  <2>2. Head(out) = out[1] /\ Len(out) >= 1 /\ out[1] \in CharSet /\ 1 \in 1..Len(out)
    BY <2>1
  <2>3. Head(out).line > cancelled /\ Head(out) \in CharSet /\ Head(out).line \in Nat
    BY <1>0, <2>2 DEF OutOK, CharSet
  <2>4. ~Stale(Head(out), cancelled)
    BY <2>1, <2>3 DEF Stale
  <2>5. OutOK'
    <3>1. \A i \in 1..Len(Tail(out)) : Tail(out)[i] = out[i + 1] /\ i + 1 \in 1..Len(out)
      BY <2>1
    <3> QED BY <1>0, <1>1, <3>1 DEF OutOK, Receive
  <2> QED BY <1>1, <2>3, <2>4, <2>5, JPut DEF Receive, machine
<1>2. CASE ReceiveHold
  <2>1. OutOK'
    BY <1>0, <1>2 DEF ReceiveHold, OutOK
  <2>2. CASE UNCHANGED ring
    BY <1>2, <2>1, <2>2, JSame DEF ReceiveHold, ring, assembly, machine
  <2>3. CASE Put(Char("!", sent))
    <3>1. Char("!", sent) \in CharSet /\ Char("!", sent).g = "!"
      BY <1>0, CharIs DEF TInv, SenderT, Glyph
    <3>2. ~Stale(Char("!", sent), cancelled)
      BY <3>1 DEF Stale
    <3> QED BY <1>2, <2>1, <2>3, <3>1, <3>2, JPut DEF ReceiveHold, assembly, machine
  <2> QED BY <1>2, <2>2, <2>3 DEF ReceiveHold
<1>3. CASE ReceiveReset
  <2>1. Quits'
    BY <1>3 DEF ReceiveReset, Quits
  <2>2. OutOK'
    BY <1>3 DEF ReceiveReset, Forget, OutOK
  <2>3. TailOK'
    BY <1>0, <1>3 DEF ReceiveReset, ring, TailOK, Unread, From, Next1
  <2> QED BY <2>1, <2>2, <2>3 DEF JInv
<1>4. CASE JogEnds
  <2>1. OutOK' /\ TailOK' /\ (CellsOK' <=> CellsOK) /\ (CanUnread' <=> CanUnread)
    BY <1>0, <1>4 DEF JogEnds, ring, sender, OutOK, TailOK, Unread, From, Next1, CellsOK, CanUnread
  <2>2. state' = "IDLE"
    BY <1>4 DEF JogEnds
  <2> QED BY <1>4, <2>1, <2>2 DEF JogEnds, JInv, Quits, HandOK, LineOK, RunOK, JogOK, CanComing, InHand,
                                   assembly, sender
<1>5. ASSUME NEW t \in Texts, BeginLine(t) PROVE JInv'
  <2>1. Len(t \o Eol) \in Nat /\ sent + 1 \in 0..MaxLines /\ sent + 1 > cancelled
    BY <1>0, <1>5, Wires, LineInputAssumption DEF TInv, SenderT, BeginLine
  <2>2. t \o Eol \in Seq(Glyph)
    BY Wires
  <2>3. \A i \in 1..Len(t \o Eol) : Char((t \o Eol)[i], sent + 1).line = sent + 1
    BY DEF Char
  <2>4. OutOK'
    BY <1>5, <2>1, <2>3 DEF OutOK, BeginLine
  <2> QED BY <1>5, <2>4, JSame DEF BeginLine, ring, assembly, machine
<1>6. ASSUME NEW k \in {"cancel", "stop"}, ReceiveCancel(k) PROVE JInv'
  <2>1. OutOK'
    BY <1>6 DEF ReceiveCancel, Forget, OutOK
  <2> QED BY <1>6, <2>1, JCancel DEF ReceiveCancel
<1> QED BY <1>1, <1>2, <1>3, <1>4, <1>5, <1>6

\* The main loop reads what is unread.
LEMMA JRead ==
    ASSUME JInv, TInv', Read
    PROVE  JInv'
<1>0. TInv /\ OutOK /\ TailOK /\ pc = "read" /\ From = tail /\ tail \in Cell /\ head \in Cell
  BY DEF JInv, Read, From, TInv, RingT
<1>1. OutOK' /\ data' = data /\ head' = head /\ cancelled' = cancelled /\ tail' = tail
  BY <1>0 DEF OutOK, Read, uMain, sender
<1>2. CASE tail = head
  <2>1. pc' = "idle" /\ UNCHANGED <<c, reg>>
    BY <1>2 DEF Read
  <2>2. TailOK'
    BY <2>1 DEF TailOK
  <2>3. From' = From
    BY <1>0, <1>1, <2>1 DEF From
  <2>4. (CellsOK' <=> CellsOK) /\ (CanUnread' <=> CanUnread)
    BY <1>1, <2>3 DEF CellsOK, CanUnread, Unread
  <2> QED BY <1>0, <1>1, <2>1, <2>2, <2>4 DEF JInv, Read, Quits, HandOK, LineOK, RunOK, JogOK, CanComing,
                                       InHand, assembly, machine, CanUnread
<1>3. CASE tail # head
  <2>1. pc' = "tail" /\ c' = data[tail] /\ reg' = Next1(tail)
    BY <1>3 DEF Read
  <2>2. TailOK'
    BY <1>1, <1>3, <2>1 DEF TailOK, Next1
  <2>3. From' = Next1(tail)
    BY <2>1 DEF From
  <2>4. Unread = Dist(tail, head) /\ Unread \in Nat /\ Unread >= 1 /\ Unread' = Unread - 1
    BY <1>0, <1>1, <1>3, <2>3, DistIs, FromIs DEF Unread
  <2>5. CanUnread => CanUnread' \/ c' = Can
    <3> SUFFICES ASSUME CanUnread, c' # Can PROVE CanUnread'
      OBVIOUS
    <3>1. PICK j \in Cell : data[j] = Can /\ Dist(j, head) \in 1..Unread
      BY DEF CanUnread, CanAhead
    <3>2. Dist(j, head) # Unread
      BY <1>0, <2>1, <2>4, <3>1, DistIs
    <3>3. Dist(j, head') \in 1..Unread'
      BY <1>1, <2>4, <3>1, <3>2
    <3> QED BY <1>1, <3>1, <3>3 DEF CanUnread, CanAhead, Cell
  <2>6. CanComing => CanComing'
    BY <1>0, <2>1, <2>5 DEF CanComing, InHand
  <2>7. CellsOK => CellsOK'
    <3> SUFFICES ASSUME CellsOK, NEW i \in Cell, Dist(i, head) \in 1..Unread', Stale(data[i], cancelled)
                 PROVE  CanAhead(data, head, Dist(i, head) - 1)
      BY <1>1 DEF CellsOK, Cell
    <3>1. Dist(i, head) \in 1..Unread
      BY <2>4
    <3> QED BY <3>1 DEF CellsOK
  <2>8. CellsOK => HandOK'
    <3> SUFFICES ASSUME CellsOK, Stale(data[tail], cancelled) PROVE CanUnread'
      BY <1>1, <2>1 DEF HandOK
    <3>1. CanAhead(data, head, Unread - 1)
      BY <1>0, <2>4 DEF CellsOK
    <3> QED BY <1>1, <2>4, <3>1 DEF CanUnread
  <2>9. UNCHANGED <<line, char_counter, run, state, jog, flags, aborted>>
    BY DEF Read, assembly, machine
  <2> QED BY <1>0, <1>1, <2>1, <2>2, <2>6, <2>7, <2>8, <2>9 DEF JInv, Quits, LineOK, RunOK, JogOK
<1> QED BY <1>2, <1>3

\* The other steps of the main thread leave the ring as it is.
LEMMA RingStays ==
    ASSUME TInv, UNCHANGED <<data, head, out, cancelled>>, From' = From, pc' # "tail", OutOK
    PROVE  TailOK' /\ OutOK' /\ (CellsOK' <=> CellsOK) /\ (CanUnread' <=> CanUnread)
BY DEF TailOK, OutOK, CellsOK, CanUnread, Unread

LEMMA JReading ==
    ASSUME JInv, TInv', ReadTail \/ CharCan \/ CharEol \/ CharErase \/ CharStore \/ CharCount
    PROVE  JInv'
<1>0. TInv /\ OutOK /\ TailOK
  BY DEF JInv
<1>a. UNCHANGED <<data, head, out, cancelled>>
  BY DEF ReadTail, CharCan, CharEol, CharErase, CharStore, CharCount, uMain, sender
<1>b. From' = From
  BY DEF ReadTail, CharCan, CharEol, CharErase, CharStore, CharCount, From
<1>c. pc' # "tail"
  BY DEF ReadTail, CharCan, CharEol, CharErase, CharStore, CharCount
<1>d. TailOK' /\ OutOK' /\ (CellsOK' <=> CellsOK) /\ (CanUnread' <=> CanUnread)
  BY <1>0, <1>a, <1>b, <1>c, RingStays
<1>1. CASE ReadTail
  BY <1>1, <1>a, <1>d DEF ReadTail, JInv, Quits, HandOK, LineOK, RunOK, JogOK, CanComing, InHand,
                          assembly, machine
<1>2. CASE CharCan
  BY <1>2, <1>a, <1>d DEF CharCan, JInv, Quits, HandOK, LineOK, RunOK, JogOK, CanComing, InHand
<1>3. CASE CharEol
  <2>1. c # Can
    BY <1>3, CanIs DEF CharEol, IsEol
  <2> QED BY <1>3, <1>a, <1>d, <2>1 DEF CharEol, JInv, Quits, HandOK, LineOK, RunOK, JogOK, CanComing,
                                   InHand, machine
<1>4. CASE CharErase
  <2>1. c # Can
    BY <1>4, CanIs DEF CharErase
  <2>2. char_counter' > 0 => char_counter > 0
    BY <1>0, <1>4 DEF CharErase, TInv, LineT
  <2> QED BY <1>4, <1>a, <1>d, <2>1, <2>2 DEF CharErase, JInv, Quits, HandOK, LineOK, RunOK, JogOK,
                                   CanComing, InHand, machine
<1>5. CASE CharStore
  <2>1. c # Can
    BY <1>5, CanIs DEF CharStore
  <2>2. pc' \in {"read", "count"} /\ pc = "char"
    BY <1>5 DEF CharStore
  <2>3. char_counter > 0 => line'[1] = line[1]
    BY <1>0, <1>5, LineInputAssumption DEF CharStore, TInv, LineT
  <2>4. ~(char_counter > 0) => line'[1] = c \/ (pc' = "read" /\ char_counter' = char_counter)
    BY <1>0, <1>5, LineInputAssumption DEF CharStore, TInv, LineT
  <2>5. char_counter' = char_counter /\ c' = c /\ UNCHANGED <<run, state, jog, flags, aborted>>
    BY <1>5 DEF CharStore, machine
  <2>6. LineOK /\ HandOK => LineOK'
    BY <1>a, <1>d, <2>1, <2>2, <2>3, <2>4, <2>5 DEF LineOK, HandOK, CanComing, InHand
  <2> QED BY <1>0, <1>a, <1>d, <2>1, <2>2, <2>5, <2>6 DEF JInv, Quits, HandOK, RunOK, JogOK, CanComing, InHand
<1>6. CASE CharCount
  BY <1>6, <1>a, <1>d DEF CharCount, JInv, Quits, HandOK, LineOK, RunOK, JogOK, CanComing, InHand,
                          machine
<1> QED BY <1>1, <1>2, <1>3, <1>4, <1>5, <1>6

\* What is served at a check point.
LEMMA JServe ==
    ASSUME MachineT, Serve, pc # "reinit"
    PROVE  /\ jog' = jog /\ (Quits => "abort" \in aborted')
           /\ ~Quits => /\ state' = "JOG" => /\ state = "JOG"
                                             /\ "STOP" \notin flags /\ "MOTION_CANCEL" \notin flags
                        /\ "abort" \notin aborted'
BY DEF Serve, Quits, MachineT

LEMMA JExecuting ==
    ASSUME JInv, TInv',
           \/ Check \/ EndLine \/ ExecuteOverflow \/ ExecuteEmpty \/ ExecuteRefused \/ Execute
           \/ Wait \/ FinishJog \/ FinishBlock \/ Answer \/ Idle \/ Resume
    PROVE  JInv'
<1>0. TInv /\ OutOK /\ TailOK /\ MachineT
  BY DEF JInv, TInv
<1>a. UNCHANGED <<data, head, out, cancelled>> /\ UNCHANGED <<line, c>>
  BY DEF Check, EndLine, ExecuteOverflow, ExecuteEmpty, ExecuteRefused, Execute, Wait, FinishJog,
         FinishBlock, Answer, Idle, Resume, uMain, sender, uExecute, uLine, Goes, assembly, ring
<1>b. pc \notin {"tail", "char", "count", "reinit"} /\ pc' \notin {"tail", "char", "count"}
  BY DEF Check, EndLine, ExecuteOverflow, ExecuteEmpty, ExecuteRefused, Execute, Wait, FinishJog,
         FinishBlock, Answer, Idle, Resume, uExecute, uLine, Goes
<1>c. tail' = tail
  BY DEF Check, EndLine, ExecuteOverflow, ExecuteEmpty, ExecuteRefused, Execute, Wait, FinishJog,
         FinishBlock, Answer, Idle, Resume, uExecute, uLine, Goes, ring
<1>d. From' = From
  BY <1>b, <1>c DEF From
<1>e. TailOK' /\ OutOK' /\ (CellsOK' <=> CellsOK) /\ (CanUnread' <=> CanUnread)
  BY <1>0, <1>a, <1>b, <1>d, RingStays
<1>f. HandOK' /\ (CanComing' <=> CanUnread) /\ (CanComing <=> CanUnread)
  BY <1>b, <1>e DEF HandOK, InHand, CanComing
<1>1. CASE Check \/ Wait \/ Idle
  <2>1. Serve /\ UNCHANGED <<char_counter, run>> /\ (pc' \in {"execute", "block"} => pc' = pc)
    BY <1>1 DEF Check, Wait, Idle, uLine, assembly
  <2>2. CASE Quits
    <3>1. Quits'
      BY <1>0, <1>b, <2>1, <2>2, JServe DEF Quits
    <3> QED BY <1>e, <3>1 DEF JInv
  <2>3. CASE ~Quits
    BY <1>0, <1>a, <1>b, <1>e, <1>f, <2>1, <2>3, JServe DEF JInv, LineOK, RunOK, JogOK
  <2> QED BY <2>2, <2>3
<1>2. CASE EndLine
  <2>1. UNCHANGED machine /\ char_counter' = char_counter /\ char_counter \in Nat
    BY <1>0, <1>2, LineInputAssumption DEF EndLine, assembly, TInv, LineT
  <2>2. run' = [i \in 1..char_counter |-> line[i]] /\ pc' = "execute"
    BY <1>2 DEF EndLine
  <2>3. run' # <<>> => char_counter > 0 /\ run'[1] = line[1]
    BY <2>1, <2>2
  <2>4. LineOK => LineOK' /\ RunOK'
    BY <1>a, <1>b, <1>e, <1>f, <2>1, <2>2, <2>3 DEF LineOK, RunOK
  <2>5. UNCHANGED <<state, jog, flags, aborted>> /\ pc' # "reinit"
    BY <2>1, <2>2 DEF machine
  <2> QED BY <1>0, <1>a, <1>b, <1>e, <1>f, <2>4, <2>5 DEF JInv, Quits, JogOK
<1>3. CASE ExecuteOverflow \/ ExecuteEmpty \/ ExecuteRefused \/ Execute \/ FinishBlock
  <2>1. UNCHANGED <<flags, aborted, state, jog, char_counter, run>>
    BY <1>3 DEF ExecuteOverflow, ExecuteEmpty, ExecuteRefused, Execute, FinishBlock, uExecute, uLine,
                Goes, machine
  <2>2. pc' # "reinit" /\ (pc' \in {"execute", "block"} => pc \in {"execute", "block"})
    BY <1>3 DEF ExecuteOverflow, ExecuteEmpty, ExecuteRefused, Execute, FinishBlock, Goes
  <2> QED BY <1>0, <1>a, <1>b, <1>e, <1>f, <2>1, <2>2 DEF JInv, Quits, LineOK, RunOK, JogOK
<1>4. CASE FinishJog
  <2>1. /\ pc = "block" /\ pc' = "answer" /\ UNCHANGED <<flags, aborted, char_counter, run>>
        /\ Head(run).g = "$" /\ run # <<>> /\ run \in Seq(CharSet)
    BY <1>0, <1>4 DEF FinishJog, uExecute, uLine, Goes, TInv, RunT
  <2>2. Head(run) = run[1]
    BY <2>1
  <2>3. \/ state' = "JOG" /\ jog' = run[1].line
        \/ UNCHANGED <<state, jog>>
    BY <1>4, <2>2 DEF FinishJog
  <2>4. RunOK /\ JogOK => JogOK'
    BY <1>a, <1>e, <1>f, <2>1, <2>2, <2>3 DEF RunOK, JogOK, Stale
  <2> QED BY <1>0, <1>a, <1>b, <1>e, <1>f, <2>1, <2>4 DEF JInv, Quits, LineOK, RunOK
<1>5. CASE Answer
  <2>1. pc' \in {"idle", "read"} /\ UNCHANGED machine /\ (char_counter' > 0 => char_counter' = char_counter)
    BY <1>5 DEF Answer
  <2> QED BY <1>0, <1>a, <1>b, <1>e, <1>f, <2>1 DEF JInv, Quits, LineOK, RunOK, JogOK, machine
<1>6. CASE Resume
  <2>1. pc' = "read" /\ aborted' = aborted \ {"cancel"} /\ UNCHANGED <<flags, state, jog, char_counter>>
    BY <1>6 DEF Resume, uLine
  <2> QED BY <1>0, <1>a, <1>b, <1>e, <1>f, <2>1 DEF JInv, Quits, LineOK, RunOK, JogOK
<1> QED BY <1>1, <1>2, <1>3, <1>4, <1>5, <1>6

\* Everything begins anew.
LEMMA JReinit ==
    ASSUME JInv, TInv', Reinit
    PROVE  JInv'
<1>0. TInv /\ OutOK
  BY DEF JInv
<1>1. /\ tail' = head /\ head' = head /\ pc' = "read" /\ char_counter' = 0 /\ state' = "IDLE"
      /\ UNCHANGED <<out, cancelled>>
  BY DEF Reinit
<1>2. Unread' = 0
  BY <1>0, <1>1, DistIs, FromIs DEF Unread, From
<1>3. CellsOK'
  BY <1>2 DEF CellsOK
<1> QED BY <1>0, <1>1, <1>3 DEF JInv, TailOK, OutOK, HandOK, InHand, LineOK, RunOK, JogOK

LEMMA JNext ==
    ASSUME JInv, [Next]_vars, [~Overtakes]_vars
    PROVE  JInv'
<1>1. TInv'
  BY TInvNext DEF JInv
<1>2. CASE UNCHANGED vars
  BY <1>1, <1>2, JSame DEF vars, ring, assembly, machine, sender, JInv, OutOK
<1>3. CASE Next /\ ~Overtakes
  BY <1>1, <1>3, JInterrupts, JRead, JReading, JExecuting, JReinit DEF Next, MainStep
<1> QED BY <1>2, <1>3

\* A CAN that is to be read is pending.
LEMMA CanIsPending ==
    ASSUME TInv, TailOK, CanUnread
    PROVE  \E i \in DOMAIN Pending : Pending[i] = Can
<1>0. tail \in Cell /\ head \in Cell /\ From \in Cell /\ Ring \in Nat /\ Ring >= 2
  BY FromIs DEF TInv, RingT
<1>1. PICK j \in Cell : data[j] = Can /\ Dist(j, head) \in 1..Dist(tail, head)
  <2>1. PICK j \in Cell : data[j] = Can /\ Dist(j, head) \in 1..Unread
    BY DEF CanUnread, CanAhead
  <2>2. CASE pc # "tail"
    BY <2>1, <2>2 DEF Unread, From
  <2>3. CASE pc = "tail" /\ Next1(tail) = reg
    <3>1. Unread = Dist(Next1(tail), head) /\ tail # head
      BY <2>3 DEF Unread, From, TailOK
    <3>2. Dist(tail, head) = Unread + 1 /\ Unread \in Nat
      BY <1>0, <3>1, DistIs, FromIs
    <3> QED BY <2>1, <3>2
  <2>4. CASE pc = "tail" /\ Next1(tail) # reg
    <3>1. data[tail] = Can /\ Dist(tail, head) \in 1..Unread
      BY <2>4 DEF TailOK
    <3> QED BY <1>0, <3>1
  <2> QED BY <2>2, <2>3, <2>4
<1>2. (head + Ring - tail) % Ring = Dist(tail, head)
  <2>1. head \in Nat /\ tail \in Nat /\ head < Ring /\ tail < Ring
    BY <1>0 DEF Cell
  <2>2. head + Ring - tail \in Nat /\ head + Ring - tail < Ring + Ring
    BY <1>0, <1>1, <2>1 DEF Dist
  <2> QED BY <1>0, <2>1, <2>2, RingMod DEF Dist
<1> DEFINE k == Dist(tail, head) - Dist(j, head) + 1
<1>3. k \in 1..Dist(tail, head)
  BY <1>0, <1>1, DistIs
<1>4. (tail + k - 1) % Ring = j
  <2>1. head \in Nat /\ tail \in Nat /\ j \in Nat /\ head < Ring /\ tail < Ring /\ j < Ring
    BY <1>0 DEF Cell
  <2>2. tail + k - 1 \in Nat /\ tail + k - 1 < Ring + Ring
        /\ (tail + k - 1 = j \/ tail + k - 1 = j + Ring)
    BY <1>0, <1>1, <2>1 DEF Dist
  <2> QED BY <1>0, <2>1, <2>2, RingMod
<1> HIDE DEF k
<1>5. k \in DOMAIN Pending /\ Pending[k] = data[j]
  BY <1>2, <1>3, <1>4 DEF Pending
<1> QED BY <1>1, <1>5

\* Whatever is sent, and whenever it is cancelled: a jog sent before a cancel that starts
\* after it is ended, because its CAN character is still to be read (or has been served), as
\* long as the interrupt does not come round the ring while serialRead is between the
\* load and the store of the tail.
THEOREM CancelledJogsEnd == Spec /\ [][~Overtakes]_vars => []JogNeverOutlivesCancel
<1>1. Init => JInv
  BY JInvInit
<1>2. JInv /\ [Next]_vars /\ [~Overtakes]_vars => JInv'
  BY JNext
<1>3. JInv => JogNeverOutlivesCancel
  <2> SUFFICES ASSUME JInv, state = "JOG", jog <= cancelled PROVE CancelPending
    BY DEF JogNeverOutlivesCancel
  <2>1. CASE Quits
    BY <2>1 DEF Quits, CancelPending
  <2>2. CASE ~Quits
    <3>1. CanComing \/ "STOP" \in flags \/ "MOTION_CANCEL" \in flags
      BY <2>2 DEF JInv, JogOK
    <3>2. CASE CanUnread
      BY <3>2, CanIsPending DEF JInv, CancelPending
    <3>3. CASE ~CanUnread
      BY <3>1, <3>3 DEF CanComing, InHand, CancelPending
    <3> QED BY <3>2, <3>3
  <2> QED BY <2>1, <2>2
<1> QED BY <1>1, <1>2, <1>3, PTL DEF Spec

-----------------------------------------------------------------------------
(* Induction, as a fact about sets of numbers, and what a line edited with *)
(* backspaces comes to.                                                    *)

LEMMA Least ==
    ASSUME NEW T \in SUBSET Nat, T # {}
    PROVE  \E m \in T : \A k \in T : m <= k
<1> DEFINE R == OpToRel(<, Nat)
<1>1. IsWellFoundedOn(R, Nat)
  BY NatLessThanWellFounded
<1>2. \A x, y \in Nat : x < y => <<x, y>> \in R
  BY DEF OpToRel
<1> HIDE DEF R
<1>3. PICK x \in T : \A y \in T : ~(<<y, x>> \in R)
  BY <1>1, WFMin
<1>4. \A y \in T : ~(y < x)
  BY <1>2, <1>3, Zenon
<1> QED BY <1>4, SMT

LEMMA Induct ==
    ASSUME NEW n \in Nat, NEW T \in SUBSET Nat, 0 \in T, \A k \in T : k < n => k + 1 \in T
    PROVE  \A k \in 0..n : k \in T
<1> DEFINE B == {k \in 0..n : k \notin T}
<1> SUFFICES ASSUME B # {} PROVE FALSE
  OBVIOUS
<1>1. PICK m \in B : \A k \in B : m <= k
  <2> B \in SUBSET Nat
    OBVIOUS
  <2> HIDE DEF B
  <2> QED BY Least
<1>2. m # 0 /\ m \in Nat /\ m - 1 \in 0..n
  OBVIOUS
<1>3. m - 1 \in T
  BY <1>1, <1>2
<1> QED BY <1>1, <1>2, <1>3

Edited(t, m, k) == IF k = 0 THEN <<>>
                   ELSE IF t[k] = "BS" THEN SubSeq(m[k - 1], 1, Len(m[k - 1]) - 1)
                   ELSE Append(m[k - 1], t[k])
IsEdit(t, n, m) == m = [k \in 0..n |-> Edited(t, m, k)]

LEMMA EditExists ==
    ASSUME NEW t, NEW n \in Nat
    PROVE  \E m : IsEdit(t, n, m)
<1> DEFINE T == {i \in Nat : \E m : IsEdit(t, i, m)}
<1>1. 0 \in T
  <2> DEFINE m == [k \in 0..0 |-> <<>>]
  <2>1. IsEdit(t, 0, m)
    BY DEF Edited, IsEdit
  <2> QED BY <2>1
<1>2. ASSUME NEW i \in T PROVE i + 1 \in T
  <2>1. i \in Nat /\ i + 1 \in Nat
    OBVIOUS
  <2>2. PICK m : IsEdit(t, i, m)
    OBVIOUS
  <2> DEFINE v == [k \in 0..(i + 1) |-> IF k <= i THEN m[k] ELSE Edited(t, m, k)]
  <2>3. \A k \in 0..i : m[k] = Edited(t, m, k)
    BY <2>2 DEF IsEdit
  <2>4. \A k \in 0..i : v[k] = m[k]
    BY <2>1
  <2>5. \A k \in 0..(i + 1) : v[k] = Edited(t, m, k)
    BY <2>1, <2>3
  <2> HIDE DEF v
  <2>6. \A k \in 0..(i + 1) : Edited(t, m, k) = Edited(t, v, k)
    <3> SUFFICES ASSUME NEW k \in 0..(i + 1), k # 0 PROVE m[k - 1] = v[k - 1]
      BY DEF Edited
    <3>1. k - 1 \in 0..i
      BY <2>1
    <3> QED BY <2>4, <3>1
  <2>7. \A k \in 0..(i + 1) : v[k] = Edited(t, v, k)
    BY <2>5, <2>6
  <2>8. IsEdit(t, i + 1, v)
    <3>1. v = [k \in 0..(i + 1) |-> v[k]]
      BY DEF v
    <3> QED BY <2>7, <3>1 DEF IsEdit
  <2> QED BY <2>1, <2>8
<1>3. T \in SUBSET Nat
  OBVIOUS
<1> HIDE DEF T
<1>4. n \in T
  BY <1>1, <1>2, <1>3, Induct
<1> QED BY <1>4 DEF T

LEMMA EditIs ==
    ASSUME NEW t \in Seq(Glyph)
    PROVE  \A k \in 0..Len(t) : Edit(t)[k] = Edited(t, Edit(t), k)
<1> DEFINE m == Edit(t)
           n == Len(t)
<1>1. n \in Nat
  OBVIOUS
<1>2. \E w : IsEdit(t, n, w)
  BY <1>1, EditExists
<1>3. m = [k \in 0..n |-> Edited(t, m, k)]
  BY <1>2 DEF Edit, IsEdit, Edited
<1> HIDE DEF m, n
<1>4. \A k \in 0..n : m[k] = Edited(t, m, k)
  BY <1>3
<1> QED BY <1>4 DEF m, n

LEMMA FrontIs ==
    ASSUME NEW s \in Seq(Glyph)
    PROVE  LET f == SubSeq(s, 1, Len(s) - 1)
           IN  /\ f \in Seq(Glyph) /\ Len(f) = (IF s = <<>> THEN 0 ELSE Len(s) - 1)
               /\ \A i \in 1..Len(f) : f[i] = s[i]
<1>1. CASE s = <<>>
  <2>1. Len(s) = 0
    BY <1>1
  <2>2. SubSeq(s, 1, Len(s) - 1) = <<>>
    BY <1>1, <2>1
  <2> QED BY <1>1, <2>2
<1>2. ASSUME NEW n \in Nat, n + 1 = Len(s)
      PROVE  /\ SubSeq(s, 1, n) \in Seq(Glyph) /\ Len(SubSeq(s, 1, n)) = n
             /\ \A i \in 1..n : SubSeq(s, 1, n)[i] = s[i]
  <2>1. 1 \in Int /\ n \in Int /\ \A i \in 1..n : s[i] \in Glyph
    BY <1>2
  <2>2. /\ SubSeq(s, 1, n) \in Seq(Glyph)
        /\ Len(SubSeq(s, 1, n)) = IF 1 <= n THEN n - 1 + 1 ELSE 0
        /\ \A i \in 1..(n - 1 + 1) : SubSeq(s, 1, n)[i] = s[1 + i - 1]
    BY <2>1, SubSeqProperties
  <2>3. Len(SubSeq(s, 1, n)) = n
    BY <2>2
  <2>4. \A i \in 1..n : i \in 1..(n - 1 + 1) /\ 1 + i - 1 = i
    OBVIOUS
  <2>5. \A i \in 1..n : SubSeq(s, 1, n)[i] = s[i]
    BY <2>2, <2>4
  <2> QED BY <2>2, <2>3, <2>5
<1>3. CASE s # <<>>
  <2>1. PICK n \in Nat : n + 1 = Len(s) /\ n = Len(s) - 1
    BY <1>3
  <2> QED BY <1>2, <1>3, <2>1
<1> QED BY <1>1, <1>3

LEMMA AppendIs ==
    \A s \in Seq(Glyph), g \in Glyph :
        /\ Append(s, g) \in Seq(Glyph) /\ Len(Append(s, g)) = Len(s) + 1
        /\ Append(s, g)[Len(s) + 1] = g /\ \A i \in 1..Len(s) : Append(s, g)[i] = s[i]
BY AppendProperties

Raw(t) == \A i \in 1..Len(t) : t[i] # "BS"

LEMMA EditType ==
    ASSUME NEW t \in Seq(Glyph), NEW k \in 0..Len(t)
    PROVE  /\ Edit(t)[k] \in Seq(Glyph) /\ Len(Edit(t)[k]) <= k
           /\ Raw(t) => Len(Edit(t)[k]) = k
<1> DEFINE m == Edit(t)
           T == {i \in Nat : i <= Len(t) => /\ m[i] \in Seq(Glyph) /\ Len(m[i]) <= i
                                            /\ Raw(t) => Len(m[i]) = i}
<1>1. Len(t) \in Nat /\ \A i \in 0..Len(t) : m[i] = Edited(t, m, i)
  BY EditIs
<1> HIDE DEF m
<1>2. 0 \in T
  <2>1. m[0] = <<>>
    BY <1>1 DEF Edited
  <2>2. <<>> \in Seq(Glyph) /\ Len(<<>>) = 0
    OBVIOUS
  <2>3. m[0] \in Seq(Glyph) /\ Len(m[0]) = 0
    BY <2>1, <2>2, Zenon
  <2> QED BY <2>3
<1>3. ASSUME NEW i \in T PROVE i + 1 \in T
  <2> SUFFICES ASSUME i + 1 <= Len(t)
               PROVE  /\ m[i + 1] \in Seq(Glyph) /\ Len(m[i + 1]) <= i + 1
                      /\ Raw(t) => Len(m[i + 1]) = i + 1
    OBVIOUS
  <2>1. /\ i \in Nat /\ i + 1 \in 1..Len(t) /\ (i + 1) - 1 = i /\ i + 1 # 0
        /\ m[i] \in Seq(Glyph) /\ Len(m[i]) <= i /\ (Raw(t) => Len(m[i]) = i)
    BY <1>1
  <2>2. m[i + 1] = IF t[i + 1] = "BS" THEN SubSeq(m[i], 1, Len(m[i]) - 1) ELSE Append(m[i], t[i + 1])
    BY <1>1, <2>1 DEF Edited
  <2>3. t[i + 1] \in Glyph
    BY <2>1
  <2>4. CASE t[i + 1] = "BS"
    <3>1. ~Raw(t)
      BY <2>1, <2>4 DEF Raw
    <3> QED BY <2>1, <2>2, <2>4, <3>1, FrontIs
  <2>5. CASE t[i + 1] # "BS"
    BY <2>1, <2>2, <2>3, <2>5, AppendIs
  <2> QED BY <2>4, <2>5
<1>4. T \in SUBSET Nat
  OBVIOUS
<1> HIDE DEF T
<1>5. k \in T
  BY <1>1, <1>2, <1>3, <1>4, Induct
<1> QED BY <1>5 DEF T, m

\* A character more.
LEMMA EditStep ==
    ASSUME NEW t \in Seq(Glyph), NEW k \in 1..Len(t)
    PROVE  LET old == Edit(t)[k - 1]
               new == Edit(t)[k]
           IN  /\ old \in Seq(Glyph) /\ new \in Seq(Glyph)
               /\ t[k] # "BS" => Len(new) = Len(old) + 1 /\ new[Len(new)] = t[k]
               /\ t[k] = "BS" => Len(new) = IF Len(old) = 0 THEN 0 ELSE Len(old) - 1
               /\ \A i \in 1..Len(new) : i <= Len(old) => new[i] = old[i]
<1>1. k - 1 \in 0..Len(t) /\ k \in 0..Len(t) /\ k # 0 /\ t[k] \in Glyph
  OBVIOUS
<1> DEFINE old == Edit(t)[k - 1]
           new == Edit(t)[k]
<1>2. old \in Seq(Glyph) /\ new \in Seq(Glyph)
  BY <1>1, EditType
<1>3. new = IF t[k] = "BS" THEN SubSeq(old, 1, Len(old) - 1) ELSE Append(old, t[k])
  BY <1>1, EditIs DEF Edited
<1> HIDE DEF old, new
<1> SUFFICES /\ t[k] # "BS" => Len(new) = Len(old) + 1 /\ new[Len(new)] = t[k]
             /\ t[k] = "BS" => Len(new) = IF Len(old) = 0 THEN 0 ELSE Len(old) - 1
             /\ \A i \in 1..Len(new) : i <= Len(old) => new[i] = old[i]
  BY <1>2 DEF old, new
<1>4. CASE t[k] = "BS"
  <2>1. /\ Len(new) = (IF old = <<>> THEN 0 ELSE Len(old) - 1)
        /\ \A i \in 1..Len(new) : new[i] = old[i]
    BY <1>2, <1>3, <1>4, FrontIs
  <2>2. old = <<>> <=> Len(old) = 0
    BY <1>2
  <2> QED BY <1>2, <1>4, <2>1, <2>2
<1>5. CASE t[k] # "BS"
  <2>1. Len(new) = Len(old) + 1 /\ new[Len(old) + 1] = t[k] /\ \A i \in 1..Len(old) : new[i] = old[i]
    BY <1>1, <1>2, <1>3, <1>5, AppendIs
  <2>2. \A i \in 1..Len(new) : i <= Len(old) => i \in 1..Len(old)
    BY <1>2
  <2> QED BY <1>2, <1>5, <2>1, <2>2
<1> QED BY <1>4, <1>5

-----------------------------------------------------------------------------
(* The stream of the sender since the last cancel, as places in lines, and *)
(* where the main loop is in it: k characters of s have been read.         *)

Place == [line : Nat, at : Nat, text : Texts]
Size(t) == Len(t \o Eol)
Sym(p) == Char((p.text \o Eol)[p.at], p.line)
Final(p) == p.at = Size(p.text)

Follows(s, n) == \A j \in 1..Len(s) :
                    /\ s[j].at \in 1..Size(s[j].text) /\ s[j].line > n
                    /\ IF j = 1 \/ Final(s[j - 1])
                       THEN s[j].at = 1 /\ s[j].line = (IF j = 1 THEN n ELSE s[j - 1].line) + 1
                       ELSE s[j].at = s[j - 1].at + 1 /\ s[j].text = s[j - 1].text
                            /\ s[j].line = s[j - 1].line
Ends(s, n, last) == IF s = <<>> THEN last = n ELSE Final(s[Len(s)]) /\ s[Len(s)].line = last
Got(s, o) == Len(s) - Len(o)
Coming(s, o) == /\ Got(s, o) \in Nat
                /\ \A i \in 1..Len(o) : o[i] = Sym(s[Got(s, o) + i])
StreamOK(s) == /\ s \in Seq(Place) /\ Follows(s, cancelled) /\ Ends(s, cancelled, sent)
               /\ Coming(s, out)

\* the n newest characters of the ring are the last of the first g, those before are not
Newest(d, h, s, g, n) == \A i \in Cell : Dist(i, h) \in 1..n => d[i] = Sym(s[g - Dist(i, h) + 1])
Older(d, h, n, u, last) == \A i \in Cell : Dist(i, h) \in (n + 1)..u => d[i].line <= last
RingIs(s, k, g) ==
    /\ k \in 0..g /\ g - k <= Unread /\ Newest(data, head, s, g, g - k)
    /\ k > 0 => g - k = Unread /\ c = Sym(s[k])
    /\ k = 0 => c.line <= cancelled /\ Older(data, head, g, Unread, cancelled)
RingOK(s, k) == RingIs(s, k, Got(s, out))

\* a line that was cut off is ended by the CAN character
Empty == char_counter = 0 /\ ~overflow
Clean == pc \in {"read", "idle", "resume"} /\ Empty
CanAt(d, h, n) == \A i \in Cell : Dist(i, h) = n => d[i] = Can
Marked(g) == \/ g < Unread /\ CanAt(data, head, g + 1)
             \/ g = Unread /\ InHand /\ c = Can
             \/ g = Unread /\ Clean
MarkOK(s, k) == k = 0 => Marked(Got(s, out))

\* the line being assembled: the first j characters of text t
Whole(f, n) == char_counter = Len(f) /\ \A i \in 1..Len(f) : line[i] = Char(f[i], n)
Holds(t, n, j) == \/ overflow /\ Raw(t) /\ j > LineMax /\ char_counter = LineMax
                  \/ ~overflow /\ Whole(Edit(t)[j], n)
Upto(t, n, j) == IF j <= Len(t) THEN Holds(t, n, j) ELSE Empty
Counts(t, n, j) == /\ j <= Len(t) /\ ~overflow /\ reg = Len(Edit(t)[j])
                   /\ \A i \in 1..reg : line[i] = Char(Edit(t)[j][i], n)
RunIs(t, n) == run = <<>> \/ (/\ Len(run) = Len(Meant(t))
                              /\ \A i \in 1..Len(run) : run[i] = Char(Meant(t)[i], n))
Assembled(t, n, j) ==
    /\ pc \in {"tail", "char"} => Upto(t, n, j - 1)
    /\ pc \in {"read", "idle", "resume"} => Upto(t, n, j)
    /\ pc = "count" => Counts(t, n, j)
    /\ pc \in {"check", "end", "execute", "block", "answer"} => j > Len(t)
    /\ pc \in {"check", "end"} => Upto(t, n, j - 1)
    /\ pc = "execute" => overflow \/ RunIs(t, n)
    /\ pc = "block" => RunIs(t, n)
AsmOK(s, k) == k > 0 => Assembled(s[k].text, s[k].line, s[k].at)

Body(s, k) == StreamOK(s) /\ RingOK(s, k) /\ MarkOK(s, k) /\ AsmOK(s, k)

SentOK == (\A i \in Cell : data[i].line <= sent) /\ c.line <= sent
CalmOK == /\ "STOP" \notin flags
          /\ waiting => sent = cancelled /\ out = <<>>
          /\ ~waiting => "RESET" \notin flags /\ aborted = {} /\ pc # "reinit"
WInv == TInv /\ SentOK /\ CalmOK /\ (waiting \/ \E s, k : Body(s, k))

\* Texts without control characters; those that are edited fit in a line.
PlainTexts ==
    /\ \A t \in Texts : /\ \A i \in 1..Len(t) : t[i] \notin {"LF", "CR", "CAN", "!"}
                        /\ Raw(t) \/ Len(t) <= LineMax
    /\ Eol # <<>>
    /\ "stop" \notin Commands /\ ("hold" \in Commands => LegacyRt)

-----------------------------------------------------------------------------
\* What a place in a line is.
LEMMA SymIs ==
    ASSUME PlainTexts, NEW p \in Place, p.at \in 1..Size(p.text), p.line \in 0..MaxLines
    PROVE  /\ Sym(p) = Char(Sym(p).g, p.line)
           /\ Sym(p) \in CharSet /\ Sym(p).line = p.line /\ Sym(p).g \in Glyph \ {"CAN"}
           /\ p.text \in Texts /\ p.text \in Seq(Glyph) /\ Size(p.text) \in Nat /\ Size(p.text) > Len(p.text)
           /\ IF p.at <= Len(p.text) THEN Sym(p).g = p.text[p.at] /\ ~IsEol(Sym(p).g)
              ELSE IsEol(Sym(p).g)
<1> DEFINE t == p.text
           g == (t \o Eol)[p.at]
<1>1. t \in Texts
  BY DEF Place
<1> HIDE DEF t
<1>2. t \in Seq(Glyph) /\ Eol \in Seq(Glyph) /\ t \o Eol \in Seq(Glyph)
  BY <1>1, Wires
<1>3. /\ Len(t \o Eol) = Len(t) + Len(Eol)
      /\ \A i \in 1..(Len(t) + Len(Eol)) : (t \o Eol)[i] = IF i <= Len(t) THEN t[i] ELSE Eol[i - Len(t)]
  BY <1>2, ConcatProperties
<1>4. Len(t) \in Nat /\ Len(Eol) \in Nat /\ Len(Eol) > 0 /\ p.at \in Nat
  <2>1. Eol # <<>>
    BY DEF PlainTexts
  <2>2. p.at \in Nat
    BY DEF Place
  <2> QED BY <1>2, <2>1, <2>2
<1>5. p.at \in 1..(Len(t) + Len(Eol)) /\ g = IF p.at <= Len(t) THEN t[p.at] ELSE Eol[p.at - Len(t)]
  BY <1>3 DEF t, Size
<1>6. \A i \in 1..Len(Eol) : Eol[i] \in {"LF", "CR"}
  BY LineInputAssumption
<1>7. \A i \in 1..Len(t) : t[i] \notin {"LF", "CR", "CAN", "!"} /\ t[i] \in Glyph
  BY <1>1, <1>2 DEF PlainTexts
<1>8. /\ g \in Glyph \ {"CAN"}
      /\ IF p.at <= Len(t) THEN g = t[p.at] /\ ~IsEol(g) ELSE IsEol(g)
  <2>1. CASE p.at <= Len(t)
    <3>1. p.at \in 1..Len(t)
      BY <1>4, <1>5, <2>1
    <3> QED BY <1>5, <1>7, <2>1, <3>1 DEF IsEol
  <2>2. CASE ~(p.at <= Len(t))
    <3>1. p.at - Len(t) \in 1..Len(Eol)
      BY <1>4, <1>5, <2>2
    <3> QED BY <1>5, <1>6, <2>2, <3>1 DEF IsEol, Glyph
  <2> QED BY <2>1, <2>2
<1>9. Sym(p) = Char(g, p.line)
  BY DEF Sym, t
<1> HIDE DEF g
<1>10. Sym(p) \in CharSet /\ Sym(p).line = p.line /\ Sym(p).g = g
  BY <1>8, <1>9, CharIs
<1> QED BY <1>1, <1>2, <1>3, <1>4, <1>8, <1>9, <1>10 DEF t, Size

\* The places of a stream.
LEMMA PlaceIs ==
    ASSUME TInv, NEW s, StreamOK(s), NEW j \in 1..Len(s)
    PROVE  /\ s[j] \in Place /\ s[j].at \in 1..Size(s[j].text)
           /\ s[j].line \in 0..MaxLines /\ s[j].line > cancelled /\ s[j].line <= sent
<1>1. s \in Seq(Place) /\ Len(s) \in Nat /\ Follows(s, cancelled) /\ sent \in 0..MaxLines /\ cancelled \in Nat
      /\ MaxLines \in Nat
  BY LineInputAssumption DEF StreamOK, TInv, SenderT
<1>2. s[j] \in Place /\ s[j].line \in Nat /\ s[j].line > cancelled /\ s[j].at \in 1..Size(s[j].text)
  <2>1. s[j] \in Place
    BY <1>1
  <2> QED BY <1>1, <2>1 DEF Follows, Place
<1> DEFINE T == {i \in Nat : i < Len(s) => s[Len(s) - i].line <= sent}
<1>3. 0 \in T
  BY <1>1 DEF StreamOK, Ends
<1>4. ASSUME NEW i \in T PROVE i + 1 \in T
  <2> SUFFICES ASSUME i + 1 < Len(s) PROVE s[Len(s) - (i + 1)].line <= sent
    OBVIOUS
  <2>0. i \in Nat /\ (i < Len(s) => s[Len(s) - i].line <= sent)
    OBVIOUS
  <2>a. s[Len(s) - i].line <= sent
    BY <1>1, <2>0
  <2> DEFINE m == Len(s) - i
  <2>1. i \in Nat /\ m \in 1..Len(s) /\ m # 1 /\ m - 1 \in 1..Len(s) /\ m - 1 = Len(s) - (i + 1)
    BY <1>1
  <2>2. s[m].line <= sent /\ s[m].line \in Nat /\ s[m - 1].line \in Nat
    <3>1. s[m] \in Place /\ s[m - 1] \in Place
      BY <1>1, <2>1
    <3>2. s[m].line <= sent
      BY <2>a
    <3> QED BY <3>1, <3>2 DEF Place
  <2> HIDE DEF m
  <2>3. s[m].line = s[m - 1].line + 1 \/ s[m].line = s[m - 1].line
    BY <1>1, <2>1 DEF Follows
  <2>4. s[m - 1].line <= sent
    BY <1>1, <2>2, <2>3
  <2> QED BY <2>1, <2>4
<1>5. T \in SUBSET Nat
  OBVIOUS
<1> HIDE DEF T
<1>6. \A i \in 0..Len(s) : i \in T
  BY <1>1, <1>3, <1>4, <1>5, Induct
<1>7. Len(s) - j \in 0..Len(s) /\ Len(s) - j < Len(s) /\ Len(s) - (Len(s) - j) = j
  BY <1>1
<1>8. s[j].line <= sent
  BY <1>6, <1>7 DEF T
<1> QED BY <1>1, <1>2, <1>8

\* The main thread works on: the stream and the ring stay.
LEMMA StreamStays ==
    ASSUME NEW s, NEW k, StreamOK(s), RingOK(s, k), From' = From,
           UNCHANGED <<data, head, c, out, sent, cancelled>>
    PROVE  StreamOK(s)' /\ RingOK(s, k)'
<1>1. Unread' = Unread
  BY DEF Unread
<1>2. StreamOK(s)'
  BY <1>1 DEF StreamOK
<1> QED BY <1>1, <1>2 DEF RingOK, RingIs

LEMMA MarkStays ==
    ASSUME NEW s, NEW k, MarkOK(s, k), From' = From, UNCHANGED <<data, head, c, out>>,
           k = 0 => (InHand /\ c = Can => InHand' \/ Clean'),
           k = 0 => (Clean => Clean')
    PROVE  MarkOK(s, k)'
<1>1. Unread' = Unread
  BY DEF Unread
<1> QED BY <1>1 DEF MarkOK, Marked

\* A character of the sender arrives.
LEMMA WReceive ==
    ASSUME TInv, TInv', NEW s, NEW k, Body(s, k), Receive, ~Overtakes, ~lost'
    PROVE  Body(s, k)' /\ Got(s, out') = Got(s, out) + 1 /\ Unread' = Unread + 1
<1>a. /\ \E i : i = Got(s, out)
      /\ \E i : i = Head(out)
  OBVIOUS
<1>b. PICK n : n = Got(s, out)
  BY <1>a
<1>c. PICK x : x = Head(out)
  BY <1>a
<1>1. /\ out \in Seq(CharSet) /\ out # <<>> /\ s \in Seq(Place) /\ n \in Nat /\ n = Len(s) - Len(out)
      /\ Len(s) \in Nat /\ Len(out) \in Nat /\ Len(out) > 0
      /\ \A i \in 1..Len(out) : out[i] = Sym(s[n + i])
  BY <1>b DEF Receive, TInv, SenderT, Body, StreamOK, Coming, Got
<1>2. /\ out' = Tail(out) /\ x = out[1] /\ Len(out') = Len(out) - 1
      /\ \A i \in 1..Len(out') : out'[i] = out[i + 1] /\ i + 1 \in 1..Len(out)
  BY <1>1, <1>c, HeadTailProperties DEF Receive
<1>3. /\ data' = [data EXCEPT ![head] = x] /\ head' = Next1(head) /\ tail' = tail
      /\ UNCHANGED <<pc, c, reg, line, char_counter, overflow, run, sent, cancelled>>
  BY <1>c DEF Receive, Put, machine
<1>4. Got(s, out') = n + 1
  BY <1>1, <1>2 DEF Got
<1>5. From' = From /\ head' # From
  <2>1. From' = From
    BY <1>3 DEF From
  <2>2. Next1(head) # tail
    BY DEF Receive, Put
  <2>3. head' # head
    BY <1>3, NextIs, LineInputAssumption DEF TInv, RingT, Cell
  <2> QED BY <1>3, <2>1, <2>2, <2>3 DEF From, Overtakes
<1>6. /\ Unread' = Unread + 1 /\ head \in Cell /\ data'[head] = x /\ Dist(head, head') = 1
      /\ \A i \in Cell : Dist(i, head') \in 1..Unread' =>
                            \/ i = head
                            \/ Dist(i, head') = Dist(i, head) + 1 /\ Dist(i, head) \in 1..Unread
                                  /\ data'[i] = data[i]
  BY <1>3, <1>5, Arrives
<1>7. /\ n \in Nat /\ Unread \in Nat /\ k \in Nat /\ k <= n /\ n - k \in Nat /\ n - k <= Unread
      /\ RingIs(s, k, n)
  <2>1. Unread \in Nat
    BY FromIs
  <2>2. RingIs(s, k, n)
    BY <1>b DEF Body, RingOK
  <2> QED BY <1>1, <2>1, <2>2 DEF RingIs
<1>8. StreamOK(s)'
  <2>1. Coming(s, out')
    <3>1. Got(s, out') \in Nat
      BY <1>1, <1>4
    <3>2. \A i \in 1..Len(out') : out'[i] = Sym(s[n + 1 + i])
      <4> SUFFICES ASSUME NEW i \in 1..Len(out') PROVE out'[i] = Sym(s[n + 1 + i])
        OBVIOUS
      <4>1. out'[i] = out[i + 1] /\ i + 1 \in 1..Len(out)
        BY <1>2
      <4>2. n + (i + 1) = n + 1 + i
        BY <1>1
      <4> QED BY <1>1, <4>1, <4>2
    <3> QED BY <1>4, <3>1, <3>2 DEF Coming
  <2> QED BY <1>3, <2>1 DEF Body, StreamOK
<1>9. Newest(data', head', s, n + 1, n + 1 - k)
  <2> SUFFICES ASSUME NEW i \in Cell, Dist(i, head') \in 1..(n + 1 - k)
               PROVE  data'[i] = Sym(s[n + 1 - Dist(i, head') + 1])
    BY <1>7 DEF Newest
  <2>1. Dist(i, head') \in 1..Unread'
    BY <1>6, <1>7
  <2>2. CASE i = head
    <3>1. x = Sym(s[n + 1]) /\ n + 1 - 1 + 1 = n + 1
      BY <1>1, <1>2
    <3> QED BY <1>6, <2>2, <3>1
  <2>3. CASE i # head
    <3>1. Dist(i, head') = Dist(i, head) + 1 /\ Dist(i, head) \in 1..Unread /\ data'[i] = data[i]
      BY <1>6, <2>1, <2>3
    <3>2. Dist(i, head) \in 1..(n - k) /\ n - Dist(i, head) + 1 = n + 1 - Dist(i, head') + 1
      <4>1. Dist(i, head) \in Int /\ Dist(i, head') \in 1..(n + 1 - k)
        BY <3>1
      <4> QED BY <1>7, <3>1, <4>1
    <3>3. data[i] = Sym(s[n - Dist(i, head) + 1])
      BY <1>7, <3>2 DEF RingIs, Newest
    <3> QED BY <3>1, <3>2, <3>3
  <2> QED BY <2>2, <2>3
<1>10. Older(data, head, n, Unread, cancelled) => Older(data', head', n + 1, Unread', cancelled)
  <2> SUFFICES ASSUME Older(data, head, n, Unread, cancelled),
                      NEW i \in Cell, Dist(i, head') \in ((n + 1) + 1)..Unread'
               PROVE  data'[i].line <= cancelled
    BY DEF Older
  <2>1. i # head /\ Dist(i, head') \in 1..Unread'
    BY <1>6, <1>7
  <2>2. Dist(i, head') = Dist(i, head) + 1 /\ Dist(i, head) \in 1..Unread /\ data'[i] = data[i]
    BY <1>6, <2>1
  <2>3. Dist(i, head) \in (n + 1)..Unread
    BY <1>7, <2>2
  <2> QED BY <2>2, <2>3 DEF Older
<1>11. RingOK(s, k)'
  <2>1. k \in 0..(n + 1) /\ n + 1 - k <= Unread' /\ (n - k = Unread => n + 1 - k = Unread')
    BY <1>6, <1>7
  <2>2. /\ k > 0 => n - k = Unread /\ c = Sym(s[k])
        /\ k = 0 => c.line <= cancelled /\ Older(data, head, n, Unread, cancelled)
    BY <1>7 DEF RingIs
  <2> QED BY <1>3, <1>4, <1>9, <1>7, <1>10, <2>1, <2>2 DEF RingOK, RingIs
<1>12. CanAt(data, head, n + 1) /\ n < Unread => CanAt(data', head', n + 1 + 1) /\ n + 1 < Unread'
  <2> SUFFICES ASSUME CanAt(data, head, n + 1), n < Unread, NEW i \in Cell, Dist(i, head') = n + 1 + 1
               PROVE  data'[i] = Can
    BY <1>6, <1>7 DEF CanAt
  <2>1. i # head /\ Dist(i, head') \in 1..Unread'
    BY <1>6, <1>7
  <2>2. Dist(i, head') = Dist(i, head) + 1 /\ data'[i] = data[i] /\ Dist(i, head) \in 1..Unread
    BY <1>6, <2>1
  <2>3. Dist(i, head) = n + 1
    BY <1>7, <2>2
  <2> QED BY <2>2, <2>3 DEF CanAt
<1>13. MarkOK(s, k)'
  <2>1. n = Unread => n + 1 = Unread'
    BY <1>6, <1>7
  <2>2. InHand' = InHand /\ Clean' = Clean
    BY <1>3 DEF InHand, Clean, Empty
  <2>3. k = 0 => Marked(n)
    BY <1>b DEF Body, MarkOK
  <2> QED BY <1>3, <1>4, <1>12, <2>1, <2>2, <2>3 DEF MarkOK, Marked
<1>14. AsmOK(s, k)'
  BY <1>3 DEF Body, AsmOK, Assembled, Upto, Holds, Whole, Counts, RunIs, Empty
<1> QED BY <1>b, <1>4, <1>6, <1>8, <1>11, <1>13, <1>14 DEF Body

\* Nothing of it changes.
LEMMA WStill ==
    ASSUME NEW s, NEW k, Body(s, k),
           UNCHANGED <<data, head, tail, pc, reg, c, line, char_counter, overflow, run, out, sent, cancelled>>
    PROVE  Body(s, k)'
<1>1. From' = From /\ InHand' = InHand /\ Clean' = Clean
  BY DEF From, InHand, Clean, Empty
<1>2. StreamOK(s)' /\ RingOK(s, k)'
  BY <1>1, StreamStays DEF Body
<1>3. MarkOK(s, k)'
  BY <1>1, MarkStays DEF Body
<1>4. AsmOK(s, k)'
  BY DEF Body, AsmOK, Assembled, Upto, Holds, Whole, Counts, RunIs, Empty
<1> QED BY <1>2, <1>3, <1>4 DEF Body

LEMMA SizeIs ==
    ASSUME PlainTexts, NEW t \in Texts
    PROVE  Size(t) \in Nat /\ Size(t) > Len(t) /\ Len(t) \in Nat /\ Size(t) = Len(t) + Len(Eol)
<1>1. t \in Seq(Glyph) /\ Eol \in Seq(Glyph)
  BY Wires
<1>2. Size(t) = Len(t) + Len(Eol)
  BY <1>1, ConcatProperties DEF Size
<1>3. Eol # <<>>
  BY DEF PlainTexts
<1>4. Len(Eol) \in Nat /\ Len(Eol) > 0
  BY <1>1, <1>3
<1> QED BY <1>1, <1>2, <1>4

\* The next line begins: the stream is longer.
LineOf(t, n) == [i \in 1..Size(t) |-> [line |-> n, at |-> i, text |-> t]]

LEMMA WBegin ==
    ASSUME PlainTexts, TInv, NEW s, NEW k, Body(s, k), NEW t \in Texts, BeginLine(t),
           NEW n, n = sent + 1
    PROVE  Body(s \o LineOf(t, n), k)'
<1> DEFINE z == s \o LineOf(t, n)
<1>1. /\ Size(t) \in Nat /\ Size(t) > 0 /\ s \in Seq(Place) /\ Len(s) \in Nat
      /\ sent \in Nat /\ cancelled \in Nat /\ cancelled <= sent /\ MaxLines \in Nat
  <2>1. Size(t) \in Nat /\ Size(t) > 0
    BY SizeIs
  <2> QED BY <2>1, LineInputAssumption DEF Body, StreamOK, TInv, SenderT
<1>2. /\ LineOf(t, n) \in Seq(Place) /\ Len(LineOf(t, n)) = Size(t)
      /\ \A i \in 1..Size(t) : LineOf(t, n)[i] = [line |-> sent + 1, at |-> i, text |-> t]
  <2>1. \A i \in 1..Size(t) : [line |-> sent + 1, at |-> i, text |-> t] \in Place
    BY <1>1 DEF Place
  <2> QED BY <1>1, <2>1 DEF LineOf
<1>3. /\ z \in Seq(Place) /\ Len(z) = Len(s) + Size(t)
      /\ \A j \in 1..Len(s) : z[j] = s[j]
      /\ \A i \in 1..Size(t) : z[Len(s) + i] = [line |-> sent + 1, at |-> i, text |-> t]
  <2>1. /\ z \in Seq(Place) /\ Len(z) = Len(s) + Size(t)
        /\ \A j \in 1..(Len(s) + Size(t)) :
              z[j] = IF j <= Len(s) THEN s[j] ELSE LineOf(t, n)[j - Len(s)]
    <3>1. \A e \in Seq(Place) :
             /\ s \o e \in Seq(Place) /\ Len(s \o e) = Len(s) + Len(e)
             /\ \A j \in 1..(Len(s) + Len(e)) : (s \o e)[j] = IF j <= Len(s) THEN s[j] ELSE e[j - Len(s)]
      BY <1>1, ConcatProperties
    <3> QED BY <1>2, <3>1
  <2>2. \A j \in 1..Len(s) : j \in 1..(Len(s) + Size(t)) /\ j <= Len(s)
    BY <1>1
  <2>3. \A i \in 1..Size(t) : /\ Len(s) + i \in 1..(Len(s) + Size(t)) /\ ~(Len(s) + i <= Len(s))
                              /\ (Len(s) + i) - Len(s) = i
    BY <1>1
  <2> QED BY <1>2, <2>1, <2>2, <2>3
<1>4. /\ out = <<>> /\ sent' = sent + 1 /\ cancelled' = cancelled
      /\ Len(out') = Size(t) /\ \A i \in 1..Size(t) : out'[i] = Char((t \o Eol)[i], sent + 1)
      /\ UNCHANGED <<data, head, tail, pc, reg, c, line, char_counter, overflow, run>>
  BY <1>1 DEF BeginLine, Size, ring, assembly
<1> HIDE DEF z
<1>5. Follows(s, cancelled) /\ Ends(s, cancelled, sent)
  BY DEF Body, StreamOK
<1>6. Follows(z, cancelled)
  <2> SUFFICES ASSUME NEW j \in 1..Len(z)
               PROVE  /\ z[j].at \in 1..Size(z[j].text) /\ z[j].line > cancelled
                      /\ IF j = 1 \/ Final(z[j - 1])
                         THEN z[j].at = 1 /\ z[j].line = (IF j = 1 THEN cancelled ELSE z[j - 1].line) + 1
                         ELSE z[j].at = z[j - 1].at + 1 /\ z[j].text = z[j - 1].text
                              /\ z[j].line = z[j - 1].line
    BY DEF Follows
  <2>1. CASE j <= Len(s)
    <3>1. j \in 1..Len(s) /\ (j # 1 => j - 1 \in 1..Len(s))
      BY <1>1, <1>3, <2>1
    <3>2. z[j] = s[j] /\ (j # 1 => z[j - 1] = s[j - 1])
      BY <1>3, <3>1
    <3> QED BY <1>5, <3>1, <3>2 DEF Follows
  <2>2. CASE j = Len(s) + 1
    <3>1. z[j] = [line |-> sent + 1, at |-> 1, text |-> t] /\ 1 \in 1..Size(t) /\ sent + 1 > cancelled
      BY <1>1, <1>3, <2>2
    <3>2. CASE s = <<>>
      <4>1. j = 1 /\ sent = cancelled
        BY <1>5, <2>2, <3>2 DEF Ends
      <4> QED BY <3>1, <4>1
    <3>3. CASE s # <<>>
      <4>1. j # 1 /\ j - 1 = Len(s) /\ Len(s) \in 1..Len(s)
        BY <1>1, <2>2, <3>3
      <4>2. z[j - 1] = s[Len(s)] /\ Final(s[Len(s)]) /\ s[Len(s)].line = sent
        BY <1>3, <1>5, <3>3, <4>1 DEF Ends
      <4> QED BY <3>1, <4>1, <4>2
    <3> QED BY <3>2, <3>3
  <2>3. CASE j > Len(s) + 1
    <3>1. PICK i \in 1..Size(t) : j = Len(s) + i
      <4>1. j - Len(s) \in 1..Size(t) /\ j = Len(s) + (j - Len(s))
        BY <1>1, <1>3, <2>3
      <4> QED BY <4>1
    <3>2. /\ z[j] = [line |-> sent + 1, at |-> i, text |-> t] /\ i # 1 /\ j # 1 /\ sent + 1 > cancelled
          /\ i - 1 \in 1..Size(t) /\ j - 1 = Len(s) + (i - 1) /\ i - 1 # Size(t)
      BY <1>1, <1>3, <2>3, <3>1
    <3>3. z[j - 1] = [line |-> sent + 1, at |-> i - 1, text |-> t]
      BY <1>3, <3>2
    <3>4. ~Final(z[j - 1]) /\ i = (i - 1) + 1
      BY <3>2, <3>3 DEF Final
    <3> QED BY <3>1, <3>2, <3>3, <3>4
  <2> QED BY <1>1, <1>3, <2>1, <2>2, <2>3
<1>7. Ends(z, cancelled, sent + 1)
  <2>1. z # <<>> /\ Size(t) \in 1..Size(t)
    BY <1>1, <1>3
  <2>2. z[Len(z)] = [line |-> sent + 1, at |-> Size(t), text |-> t]
    BY <1>3, <2>1
  <2> QED BY <2>1, <2>2 DEF Ends, Final
<1>8. Got(z, out') = Len(s) /\ Got(s, out) = Len(s)
  BY <1>1, <1>3, <1>4 DEF Got
<1>9. Coming(z, out')
  <2>1. \A i \in 1..Size(t) : out'[i] = Sym(z[Len(s) + i])
    <3>1. \A i \in Nat : Sym([line |-> sent + 1, at |-> i, text |-> t]) = Char((t \o Eol)[i], sent + 1)
      BY DEF Sym
    <3> SUFFICES ASSUME NEW i \in 1..Size(t) PROVE out'[i] = Sym(z[Len(s) + i])
      OBVIOUS
    <3>2. i \in Nat
      BY <1>1
    <3>3. z[Len(s) + i] = [line |-> sent + 1, at |-> i, text |-> t]
      BY <1>3
    <3>4. out'[i] = Char((t \o Eol)[i], sent + 1)
      BY <1>4
    <3> QED BY <3>1, <3>2, <3>3, <3>4, Zenon
  <2> QED BY <1>1, <1>4, <1>8, <2>1 DEF Coming
<1>10. StreamOK(z)'
  BY <1>3, <1>4, <1>6, <1>7, <1>9 DEF StreamOK
<1>11. RingIs(s, k, Len(s)) /\ Unread \in Nat
  BY <1>8, FromIs DEF Body, RingOK
<1>12. Newest(data, head, z, Len(s), Len(s) - k)
  <2> SUFFICES ASSUME NEW i \in Cell, Dist(i, head) \in 1..(Len(s) - k)
               PROVE  data[i] = Sym(z[Len(s) - Dist(i, head) + 1])
    BY DEF Newest
  <2>1. data[i] = Sym(s[Len(s) - Dist(i, head) + 1])
    BY <1>11 DEF RingIs, Newest
  <2>2. k \in Nat /\ Len(s) - Dist(i, head) + 1 \in 1..Len(s)
    BY <1>1, <1>11 DEF RingIs
  <2> QED BY <1>3, <2>1, <2>2
<1>13. k > 0 => k \in 1..Len(s) /\ z[k] = s[k]
  BY <1>1, <1>3, <1>11 DEF RingIs
<1>14. From' = From /\ InHand' = InHand /\ Clean' = Clean /\ Unread' = Unread
  BY <1>4 DEF From, InHand, Clean, Empty, Unread
<1>15. RingIs(z, k, Len(s))'
  <2>1. /\ k \in 0..Len(s) /\ Len(s) - k <= Unread
        /\ k > 0 => Len(s) - k = Unread /\ c = Sym(z[k])
        /\ k = 0 => c.line <= cancelled /\ Older(data, head, Len(s), Unread, cancelled)
    BY <1>11, <1>13 DEF RingIs
  <2> QED BY <1>4, <1>12, <1>14, <2>1 DEF RingIs
<1>16. RingOK(z, k)'
  BY <1>8, <1>15 DEF RingOK
<1>17. MarkOK(z, k)'
  BY <1>4, <1>8, <1>14 DEF Body, MarkOK, Marked
<1>18. AsmOK(z, k)'
  BY <1>4, <1>13 DEF Body, AsmOK, Assembled, Upto, Holds, Whole, Counts, RunIs, Empty
<1>19. Body(z, k)'
  BY <1>10, <1>16, <1>17, <1>18 DEF Body
<1> QED BY <1>19 DEF z

\* Everything begins anew with a cancel.
LEMMA Nothing ==
    /\ <<>> \in Seq(Place) /\ \A n : Follows(<<>>, n) /\ Ends(<<>>, n, n)
    /\ Got(<<>>, <<>>) = 0 /\ Coming(<<>>, <<>>)
    /\ \A d, h, g : Newest(d, h, <<>>, g, 0)
<1>1. Len(<<>>) = 0 /\ 1..0 = {}
  OBVIOUS
<1>2. \A d, h, g : Newest(d, h, <<>>, g, 0)
  BY <1>1 DEF Newest
<1>3. \A n : Follows(<<>>, n) /\ Ends(<<>>, n, n)
  BY <1>1 DEF Follows, Ends
<1>4. Got(<<>>, <<>>) = 0
  BY DEF Got
<1>5. Coming(<<>>, <<>>)
  BY <1>1, <1>4 DEF Coming
<1> QED BY <1>2, <1>3, <1>4, <1>5

LEMMA WCancel ==
    ASSUME TInv, SentOK, NEW k, ReceiveCancel(k), ~Overtakes
    PROVE  Body(<<>>, 0)'
<1>1. /\ out' = <<>> /\ sent' = sent /\ cancelled' = sent /\ CancelRead
      /\ UNCHANGED <<pc, reg, c>> /\ head' = Next1(head)
  BY DEF ReceiveCancel, Forget, CancelRead
<1>2. /\ data' = [data EXCEPT ![head] = Can] /\ head \in Cell /\ data'[head] = Can
      /\ Unread' \in Nat /\ Unread' >= 1
      /\ \A i \in Cell : Dist(i, head') = 1 => i = head
  BY <1>1, Empties
<1>3. sent \in Nat /\ data \in [Cell -> CharSet]
  BY LineInputAssumption DEF TInv, SenderT, RingT
<1>4. \A i \in Cell : data'[i].line <= sent
  BY <1>2, <1>3, CanIs DEF SentOK
<1>5. StreamOK(<<>>)'
  BY <1>1, Nothing DEF StreamOK
<1>6. RingIs(<<>>, 0, 0)'
  <2>1. Older(data', head', 0, Unread', cancelled')
    BY <1>1, <1>4 DEF Older
  <2>2. Newest(data', head', <<>>, 0, 0 - 0)
    BY Nothing
  <2>3. c'.line <= cancelled'
    BY <1>1 DEF SentOK
  <2> QED BY <1>2, <2>1, <2>2, <2>3 DEF RingIs
<1>7. MarkOK(<<>>, 0)'
  <2>1. CanAt(data', head', 0 + 1)
    BY <1>2 DEF CanAt
  <2> QED BY <1>1, <1>2, <2>1, Nothing DEF MarkOK, Marked
<1> QED BY <1>1, <1>5, <1>6, <1>7, Nothing DEF Body, RingOK, AsmOK

\* A line is begun with nothing.
LEMMA BeginsEmpty ==
    ASSUME NEW t \in Texts, NEW n, Empty
    PROVE  Upto(t, n, 0)
<1>1. t \in Seq(Glyph)
  BY Wires
<1>2. Edit(t)[0] = <<>>
  <2>1. 0 \in 0..Len(t)
    BY <1>1
  <2> QED BY <1>1, <2>1, EditIs DEF Edited
<1>3. Whole(<<>>, n)
  BY DEF Whole, Empty
<1>4. 0 <= Len(t)
  BY <1>1
<1> QED BY <1>2, <1>3, <1>4 DEF Upto, Holds, Empty

\* The next character is read.
LEMMA WRead ==
    ASSUME PlainTexts, TInv, NEW s, NEW k, Body(s, k), Read
    PROVE  \/ pc' = "idle" /\ Body(s, k)'
           \/ pc' = "tail" /\ k + 1 \in 1..Got(s, out) /\ Body(s, k + 1)'
           \/ pc' = "tail" /\ k = 0 /\ Got(s, out) < Unread /\ Body(s, k)'
<1>a. \E i : i = Got(s, out)
  OBVIOUS
<1>b. PICK g : g = Got(s, out)
  BY <1>a
<1>1. /\ pc = "read" /\ From = tail /\ tail \in Cell /\ head \in Cell /\ Unread = Dist(tail, head)
      /\ UNCHANGED <<data, head, tail, line, char_counter, overflow, run, out, sent, cancelled>>
      /\ Unread \in Nat
  BY FromIs DEF Read, From, Unread, TInv, RingT, uMain, sender, assembly
<1>2. /\ s \in Seq(Place) /\ g \in Nat /\ g <= Len(s) /\ Len(s) \in Nat /\ k \in Nat
      /\ RingIs(s, k, g) /\ (k = 0 => Marked(g))
  <2>1. s \in Seq(Place) /\ g \in Nat /\ Len(out) \in Nat
    BY <1>b DEF Body, StreamOK, Coming, TInv, SenderT
  <2>2. RingIs(s, k, g) /\ (k = 0 => Marked(g))
    BY <1>b DEF Body, RingOK, MarkOK
  <2>3. g <= Len(s)
    BY <1>b, <2>1 DEF Got
  <2>4. k \in Nat
    BY <2>1, <2>2 DEF RingIs
  <2> QED BY <2>1, <2>2, <2>3, <2>4
<1>3. CASE tail = head
  <2>1. pc' = "idle" /\ UNCHANGED <<c, reg>>
    BY <1>3 DEF Read
  <2>2. From' = From
    BY <1>1, <2>1 DEF From
  <2>3. StreamOK(s)' /\ RingOK(s, k)'
    BY <1>1, <2>1, <2>2, StreamStays DEF Body
  <2>4. MarkOK(s, k)'
    <3>1. ~InHand /\ (Clean => Clean')
      BY <1>1, <2>1 DEF InHand, Clean, Empty
    <3> QED BY <1>1, <2>1, <2>2, <3>1, MarkStays DEF Body
  <2>5. AsmOK(s, k)'
    BY <1>1, <2>1 DEF Body, AsmOK, Assembled, Upto, Holds, Whole, Empty
  <2> QED BY <2>1, <2>3, <2>4, <2>5 DEF Body
<1>4. CASE tail # head
  <2>1. pc' = "tail" /\ c' = data[tail] /\ From' = Next1(tail)
    BY <1>4 DEF Read, From
  <2>2. Unread >= 1 /\ Unread' = Unread - 1
    BY <1>1, <1>4, <2>1, DistIs DEF Unread
  <2>3. StreamOK(s)'
    BY <1>1 DEF Body, StreamOK
  <2>4. Got(s, out') = g
    BY <1>b, <1>1
  <2>5. CASE g - k = Unread
    <3>1. k + 1 \in 1..g /\ g - (k + 1) = Unread' /\ k + 1 > 0 /\ k + 1 # 0 /\ k + 1 \in 1..Len(s)
      BY <1>1, <1>2, <2>2, <2>5
    <3>2. Newest(data, head, s, g, g - k)
      BY <1>2 DEF RingIs
    <3>3. c' = Sym(s[k + 1])
      <4>1. Dist(tail, head) \in 1..(g - k) /\ g - Dist(tail, head) + 1 = k + 1
        BY <1>1, <1>2, <2>2, <2>5
      <4> QED BY <1>1, <2>1, <3>2, <4>1 DEF Newest
    <3>4. Newest(data, head, s, g, g - (k + 1))
      <4>1. \A d : d \in 1..(g - (k + 1)) => d \in 1..(g - k)
        BY <1>2
      <4> QED BY <3>2, <4>1 DEF Newest
    <3>5. RingIs(s, k + 1, g)'
      <4>1. k + 1 \in 0..g /\ g - (k + 1) <= Unread'
        BY <1>2, <2>2, <3>1
      <4> QED BY <1>1, <3>1, <3>3, <3>4, <4>1 DEF RingIs
    <3>6. MarkOK(s, k + 1)'
      BY <3>1 DEF MarkOK
    <3>7. Upto(s[k + 1].text, s[k + 1].line, s[k + 1].at - 1)
      <4>1. Follows(s, cancelled) /\ StreamOK(s)
        BY DEF Body, StreamOK
      <4>2. s[k + 1].text \in Texts /\ s[k + 1].at \in Nat
        <5>1. s[k + 1] \in Place
          BY <1>2, <3>1
        <5> QED BY <5>1 DEF Place
      <4>3. CASE k = 0
        <5>1. Empty
          BY <1>1, <1>2, <2>5, <4>3 DEF Marked, InHand, Clean
        <5>2. s[k + 1].at = 1
          BY <3>1, <4>1, <4>3 DEF Follows
        <5> QED BY <4>2, <5>1, <5>2, BeginsEmpty
      <4>4. CASE k # 0
        <5>1. k \in 1..Len(s) /\ k > 0 /\ (k + 1) - 1 = k /\ k + 1 # 1
          BY <1>2, <3>1, <4>4
        <5>2. Upto(s[k].text, s[k].line, s[k].at)
          BY <1>1, <5>1 DEF Body, AsmOK, Assembled
        <5>3. s[k].at \in Nat /\ s[k].text \in Texts
          <6>1. s[k] \in Place
            BY <1>2, <5>1
          <6> QED BY <6>1 DEF Place
        <5>4. CASE Final(s[k])
          <6>1. Size(s[k].text) > Len(s[k].text) /\ Len(s[k].text) \in Nat /\ Size(s[k].text) \in Nat
            BY <5>3, SizeIs
          <6>2. Empty
            BY <5>2, <5>4, <6>1 DEF Upto, Final
          <6>3. s[k + 1].at = 1
            BY <3>1, <4>1, <5>1, <5>4 DEF Follows
          <6> QED BY <4>2, <6>2, <6>3, BeginsEmpty
        <5>5. CASE ~Final(s[k])
          <6>1. s[k + 1].at = s[k].at + 1 /\ s[k + 1].text = s[k].text /\ s[k + 1].line = s[k].line
            BY <3>1, <4>1, <5>1, <5>5 DEF Follows
          <6>2. s[k + 1].at - 1 = s[k].at
            BY <5>3, <6>1
          <6> QED BY <5>2, <6>1, <6>2
        <5> QED BY <5>4, <5>5
      <4> QED BY <4>3, <4>4
    <3>8. AsmOK(s, k + 1)'
      BY <1>1, <2>1, <3>7 DEF AsmOK, Assembled, Upto, Holds, Whole, Empty
    <3>9. Body(s, k + 1)'
      BY <2>3, <2>4, <3>5, <3>6, <3>8 DEF Body, RingOK
    <3> QED BY <1>b, <2>1, <3>1, <3>9
  <2>6. CASE g - k # Unread
    <3>1. k = 0 /\ g < Unread /\ CanAt(data, head, g + 1)
      BY <1>1, <1>2, <2>6 DEF RingIs, Marked
    <3>2. /\ Newest(data, head, s, g, g - k) /\ Older(data, head, g, Unread, cancelled)
          /\ k \in 0..g
      BY <1>2, <3>1 DEF RingIs
    <3>3. c'.line <= cancelled'
      <4>1. Dist(tail, head) \in (g + 1)..Unread
        BY <1>1, <1>2, <3>1
      <4> QED BY <1>1, <2>1, <3>2, <4>1 DEF Older
    <3>4. Older(data, head, g, Unread', cancelled)
      <4>1. \A d : d \in (g + 1)..Unread' => d \in (g + 1)..Unread
        BY <1>1, <1>2, <2>2
      <4> QED BY <3>2, <4>1 DEF Older
    <3>5. RingIs(s, k, g)'
      <4>1. g - k <= Unread'
        BY <1>1, <1>2, <2>2, <3>1
      <4> QED BY <1>1, <3>1, <3>2, <3>3, <3>4, <4>1 DEF RingIs
    <3>6. Marked(g)'
      <4>1. CASE g + 1 = Unread
        <5>1. c' = Can /\ InHand'
          BY <1>1, <2>1, <3>1, <4>1 DEF CanAt, InHand
        <5>2. g = Unread'
          BY <1>2, <2>2, <4>1
        <5> QED BY <5>1, <5>2 DEF Marked
      <4>2. CASE g + 1 # Unread
        <5>1. g < Unread'
          BY <1>1, <1>2, <2>2, <3>1, <4>2
        <5> QED BY <1>1, <3>1, <5>1 DEF Marked
      <4> QED BY <4>1, <4>2
    <3>7. AsmOK(s, k)'
      BY <3>1 DEF AsmOK
    <3>8. Body(s, k)'
      BY <2>3, <2>4, <3>5, <3>6, <3>7 DEF Body, RingOK, MarkOK
    <3> QED BY <1>b, <2>1, <3>1, <3>8
  <2> QED BY <2>5, <2>6
<1> QED BY <1>3, <1>4

\* What the character in hand is, when it is k of s.
LEMMA HandIs ==
    ASSUME PlainTexts, TInv, NEW s, NEW k, Body(s, k), k > 0
    PROVE  LET t == s[k].text
               n == s[k].line
               j == s[k].at
           IN  /\ t \in Texts /\ t \in Seq(Glyph) /\ j \in Nat /\ j >= 1 /\ Len(t) \in Nat
               /\ n \in Nat /\ c.line = n
               /\ c = Char(c.g, n) /\ c.g # "CAN"
               /\ IF j <= Len(t) THEN c.g = t[j] /\ ~IsEol(c.g) ELSE IsEol(c.g)
<1>1. k \in 1..Len(s) /\ c = Sym(s[k]) /\ StreamOK(s)
  <2>1. /\ Len(s) \in Nat /\ Len(out) \in Nat /\ Got(s, out) \in Nat /\ k \in 0..Got(s, out)
        /\ c = Sym(s[k])
    BY DEF Body, StreamOK, Coming, RingOK, RingIs, TInv, SenderT
  <2> QED BY <2>1 DEF Got, Body
<1>2. s[k] \in Place /\ s[k].at \in 1..Size(s[k].text) /\ s[k].line \in 0..MaxLines
  BY <1>1, PlaceIs
<1>3. s[k].at \in Nat /\ s[k].line \in Nat
  BY <1>2 DEF Place
<1>4. /\ Sym(s[k]) = Char(Sym(s[k]).g, s[k].line) /\ Sym(s[k]).line = s[k].line
      /\ Sym(s[k]).g \in Glyph \ {"CAN"}
      /\ s[k].text \in Texts /\ s[k].text \in Seq(Glyph) /\ Size(s[k].text) \in Nat
      /\ IF s[k].at <= Len(s[k].text) THEN Sym(s[k]).g = s[k].text[s[k].at] /\ ~IsEol(Sym(s[k]).g)
         ELSE IsEol(Sym(s[k]).g)
  BY <1>2, SymIs
<1>5. s[k].at >= 1 /\ Len(s[k].text) \in Nat
  BY <1>2, <1>3, <1>4
<1> QED BY <1>1, <1>3, <1>4, <1>5

\* A step of the main thread that leaves ring and stream alone.
LEMMA WWork ==
    ASSUME NEW s, NEW k, Body(s, k), From' = From, UNCHANGED <<data, head, c, out, sent, cancelled>>,
           k = 0 => (InHand /\ c = Can => InHand' \/ Clean') /\ (Clean => Clean'),
           AsmOK(s, k)'
    PROVE  Body(s, k)'
BY StreamStays, MarkStays DEF Body

LEMMA ErasedIs ==
    ASSUME PlainTexts, TInv, NEW t \in Texts, NEW n, NEW j \in 1..Len(t), t[j] = "BS", c.g = "BS",
           Holds(t, n, j - 1), CharErase
    PROVE  Holds(t, n, j)'
<1>1. t \in Seq(Glyph)
  BY Wires
<1> DEFINE old == Edit(t)[j - 1]
           new == Edit(t)[j]
<1>2. /\ old \in Seq(Glyph) /\ new \in Seq(Glyph)
      /\ Len(new) = IF Len(old) = 0 THEN 0 ELSE Len(old) - 1
      /\ \A i \in 1..Len(new) : i <= Len(old) => new[i] = old[i]
  BY <1>1, EditStep
<1>3. ~overflow /\ Whole(old, n)
  BY DEF Holds, Raw
<1> HIDE DEF old, new
<1>4. Len(old) \in Nat /\ Len(new) \in Nat
  BY <1>2
<1>5. char_counter' = Len(new) /\ ~overflow' /\ line' = line
  BY <1>2, <1>3, <1>4 DEF CharErase, Whole
<1>6. \A i \in 1..Len(new) : line[i] = Char(new[i], n)
  <2>1. \A i \in 1..Len(new) : i \in 1..Len(old) /\ i <= Len(old)
    BY <1>2, <1>4
  <2> QED BY <1>2, <1>3, <2>1 DEF Whole
<1>7. Whole(new, n)'
  BY <1>5, <1>6 DEF Whole
<1> QED BY <1>5, <1>7 DEF Holds, new

LEMMA StoredIs ==
    ASSUME PlainTexts, TInv, NEW t \in Texts, NEW n, NEW j \in 1..Len(t), t[j] = c.g, c = Char(c.g, n),
           Holds(t, n, j - 1), CharStore
    PROVE  \/ pc' = "read" /\ Holds(t, n, j)'
           \/ pc' = "count" /\ Counts(t, n, j)'
<1>1. /\ t \in Seq(Glyph) /\ LineMax \in Nat /\ LineMax >= 1 /\ char_counter \in 0..LineMax
      /\ line \in [1..LineMax -> CharSet] /\ Len(t) \in Nat /\ j \in Nat /\ j >= 1 /\ j <= Len(t)
  <2>1. t \in Seq(Glyph) /\ Len(t) \in Nat
    BY Wires
  <2> QED BY <2>1, LineInputAssumption DEF TInv, LineT
<1> DEFINE old == Edit(t)[j - 1]
           new == Edit(t)[j]
<1>2. t[j] # "BS"
  BY DEF CharStore
<1>3. /\ old \in Seq(Glyph) /\ new \in Seq(Glyph)
      /\ Len(new) = Len(old) + 1 /\ new[Len(new)] = t[j]
      /\ \A i \in 1..Len(new) : i <= Len(old) => new[i] = old[i]
  BY <1>1, <1>2, EditStep
<1>4. Len(old) <= j - 1
  <2>1. j - 1 \in 0..Len(t)
    BY <1>1
  <2> QED BY <1>1, <2>1, EditType
<1>5. Len(old) \in Nat /\ Len(new) \in Nat
  BY <1>3
<1>6. char_counter' = char_counter /\ overflow' = Full
  BY DEF CharStore
<1>7. CASE Full
  <2>1. pc' = "read" /\ char_counter = LineMax /\ overflow'
    <3>1. pc' = "read" /\ overflow'
      BY <1>6, <1>7, Zenon DEF CharStore
    <3>2. char_counter = LineMax
      BY <1>1, <1>7 DEF Full
    <3> QED BY <3>1, <3>2
  <2>2. Raw(t) /\ j > LineMax
    <3>1. CASE overflow /\ Raw(t) /\ j - 1 > LineMax
      BY <1>1, <3>1
    <3>2. CASE Whole(old, n)
      <4>1. LineMax <= j - 1
        BY <1>1, <1>4, <1>5, <2>1, <3>2 DEF Whole
      <4>2. ~(Len(t) <= LineMax)
        BY <1>1, <4>1
      <4>3. Raw(t)
        BY <4>2 DEF PlainTexts
      <4> QED BY <1>1, <4>1, <4>3
    <3> QED BY <3>1, <3>2 DEF Holds
  <2> QED BY <1>6, <2>1, <2>2 DEF Holds
<1>8. CASE ~Full
  <2>1. /\ pc' = "count" /\ reg' = char_counter + 1 /\ line' = [line EXCEPT ![char_counter + 1] = c]
        /\ ~overflow'
    BY <1>6, <1>8 DEF CharStore
  <2>2. char_counter + 1 \in 1..LineMax /\ char_counter # LineMax
    BY <1>1, <1>8 DEF Full
  <2>3. ~overflow /\ char_counter = Len(old) /\ \A i \in 1..Len(old) : line[i] = Char(old[i], n)
    BY <2>2 DEF Holds, Whole
  <2>4. reg' = Len(new)
    BY <1>3, <2>1, <2>3
  <2>5. ASSUME NEW i \in 1..Len(new) PROVE line'[i] = Char(new[i], n)
    <3>1. CASE i = Len(new)
      <4>1. line'[i] = c
        BY <1>1, <1>3, <2>1, <2>2, <2>3, <3>1
      <4> QED BY <1>3, <3>1, <4>1
    <3>2. CASE i # Len(new)
      <4>1. i \in 1..Len(old) /\ i <= Len(old) /\ i # char_counter + 1 /\ i \in 1..LineMax
        BY <1>1, <1>3, <1>5, <2>2, <2>3, <3>2
      <4>2. line'[i] = line[i]
        BY <1>1, <2>1, <4>1
      <4> QED BY <1>3, <2>3, <4>1, <4>2
    <3> QED BY <3>1, <3>2
  <2> HIDE DEF new
  <2>6. j <= Len(t) /\ \A i \in 1..reg' : line'[i] = Char(new[i], n)
    BY <1>1, <2>4, <2>5
  <2> QED BY <2>1, <2>4, <2>6 DEF Counts, new
<1> QED BY <1>7, <1>8

\* Reading and assembling a line.
LEMMA WReading ==
    ASSUME PlainTexts, TInv, NEW s, NEW k, Body(s, k),
           ReadTail \/ CharCan \/ CharEol \/ CharErase \/ CharStore \/ CharCount
    PROVE  Body(s, k)'
<1>1. UNCHANGED <<data, head, c, out, sent, cancelled>>
  BY DEF ReadTail, CharCan, CharEol, CharErase, CharStore, CharCount, uMain, sender
<1>2. From' = From
  BY DEF ReadTail, CharCan, CharEol, CharErase, CharStore, CharCount, From
<1>3. k = 0 => (InHand /\ c = Can => InHand' \/ Clean') /\ (Clean => Clean')
  <2>1. ~Clean
    BY DEF ReadTail, CharCan, CharEol, CharErase, CharStore, CharCount, Clean
  <2>2. c = Can /\ InHand => ReadTail \/ CharCan
    BY CanIs DEF CharEol, CharErase, CharStore, CharCount, IsEol, InHand
  <2>3. ReadTail => InHand'
    BY DEF ReadTail, InHand
  <2>4. CharCan => Clean'
    BY DEF CharCan, Clean, Empty
  <2> QED BY <2>1, <2>2, <2>3, <2>4
<1>4. AsmOK(s, k)'
  <2> SUFFICES ASSUME k > 0 PROVE Assembled(s[k].text, s[k].line, s[k].at)'
    BY DEF AsmOK
  <2>a. \E t, n, j : t = s[k].text /\ n = s[k].line /\ j = s[k].at
    OBVIOUS
  <2>b. PICK t, n, j : t = s[k].text /\ n = s[k].line /\ j = s[k].at
    BY <2>a
  <2>1. /\ t \in Texts /\ t \in Seq(Glyph) /\ j \in Nat /\ j >= 1 /\ Len(t) \in Nat /\ n \in Nat
        /\ c = Char(c.g, n) /\ c.g # "CAN"
        /\ IF j <= Len(t) THEN c.g = t[j] /\ ~IsEol(c.g) ELSE IsEol(c.g)
    BY <2>b, HandIs
  <2>2. Assembled(t, n, j)
    BY <2>b DEF Body, AsmOK
  <2> SUFFICES Assembled(t, n, j)'
    BY <2>b
  <2>3. CASE ReadTail
    BY <2>2, <2>3 DEF ReadTail, Assembled, Upto, Holds, Whole, Empty, assembly
  <2>4. CASE CharCan
    BY <2>1, <2>4 DEF CharCan
  <2>5. CASE CharEol
    <3>1. j > Len(t) /\ Upto(t, n, j - 1) /\ ~(j <= Len(t))
      BY <2>1, <2>2, <2>5 DEF CharEol, Assembled
    <3>2. UNCHANGED <<char_counter, overflow, line, run>>
      BY <2>5 DEF CharEol
    <3>3. CASE pc' = "check"
      BY <3>1, <3>2, <3>3 DEF Assembled, Upto, Holds, Whole, Empty
    <3>4. CASE pc' # "check"
      <4>1. pc' = "read" /\ char_counter = 0
        BY <2>5, <3>4 DEF CharEol
      <4>2. ~overflow
        <5>1. LineMax # 0
          BY LineInputAssumption
        <5> QED BY <3>1, <4>1, <5>1 DEF Upto, Holds, Empty
      <4> QED BY <3>1, <3>2, <4>1, <4>2 DEF Assembled, Upto, Empty
    <3> QED BY <3>3, <3>4
  <2>6. CASE CharErase
    <3>1. j <= Len(t) /\ t[j] = "BS" /\ c.g = "BS" /\ pc = "char" /\ pc' = "read" /\ j - 1 <= Len(t)
      BY <2>1, <2>6 DEF CharErase, IsEol
    <3>2. Holds(t, n, j - 1) /\ j \in 1..Len(t)
      BY <2>1, <2>2, <3>1 DEF Assembled, Upto
    <3>3. Holds(t, n, j)'
      BY <2>1, <2>6, <3>1, <3>2, ErasedIs
    <3> QED BY <3>1, <3>3 DEF Assembled, Upto
  <2>7. CASE CharStore
    <3>1. j <= Len(t) /\ t[j] = c.g /\ pc = "char" /\ j - 1 <= Len(t)
      BY <2>1, <2>7 DEF CharStore, IsEol
    <3>2. Holds(t, n, j - 1) /\ j \in 1..Len(t)
      BY <2>1, <2>2, <3>1 DEF Assembled, Upto
    <3>3. \/ pc' = "read" /\ Holds(t, n, j)'
          \/ pc' = "count" /\ Counts(t, n, j)'
      BY <2>1, <2>7, <3>1, <3>2, StoredIs
    <3> QED BY <3>1, <3>3 DEF Assembled, Upto
  <2>8. CASE CharCount
    <3>1. Counts(t, n, j) /\ pc' = "read"
      BY <2>2, <2>8 DEF CharCount, Assembled
    <3>2. char_counter' = reg /\ line' = line /\ overflow' = overflow
      BY <2>8 DEF CharCount
    <3>3. Holds(t, n, j)'
      BY <3>1, <3>2 DEF Counts, Holds, Whole
    <3> QED BY <3>1, <3>3 DEF Assembled, Upto, Counts
  <2> QED BY <2>3, <2>4, <2>5, <2>6, <2>7, <2>8
<1> QED BY <1>1, <1>2, <1>3, <1>4, WWork

\* From the end of a line to its answer.
LEMMA WEndLine ==
    ASSUME PlainTexts, TInv, NEW t \in Texts, NEW n, NEW j \in Nat, j > Len(t), Upto(t, n, j - 1), EndLine
    PROVE  overflow' \/ RunIs(t, n)'
<1>1. t \in Seq(Glyph) /\ char_counter \in Nat /\ Len(t) \in Nat
  BY Wires, LineInputAssumption DEF TInv, LineT
<1>2. run' = [i \in 1..char_counter |-> line[i]] /\ overflow' = overflow
  BY DEF EndLine, assembly
<1>3. Len(run') = char_counter
  BY <1>1, <1>2
<1>4. CASE Empty
  <2>1. run' = <<>>
    BY <1>2, <1>4 DEF Empty
  <2> QED BY <2>1 DEF RunIs
<1>5. CASE ~Empty
  <2>1. j - 1 = Len(t) /\ Holds(t, n, Len(t))
    <3>1. j - 1 <= Len(t)
      BY <1>5 DEF Upto
    <3>2. j - 1 = Len(t)
      BY <1>1, <3>1
    <3> QED BY <3>1, <3>2 DEF Upto
  <2>2. CASE overflow
    BY <1>2, <2>2
  <2>3. CASE ~overflow
    <3>1. Whole(Meant(t), n)
      BY <2>1, <2>3 DEF Holds, Meant
    <3>2. char_counter = Len(Meant(t)) /\ \A i \in 1..char_counter : line[i] = Char(Meant(t)[i], n)
      BY <3>1 DEF Whole
    <3>3. Len(run') = Len(Meant(t)) /\ \A i \in 1..Len(run') : run'[i] = Char(Meant(t)[i], n)
      BY <1>2, <1>3, <3>2
    <3> QED BY <3>3 DEF RunIs
  <2> QED BY <2>2, <2>3
<1> QED BY <1>4, <1>5

LEMMA WExecuting ==
    ASSUME PlainTexts, TInv, CalmOK, ~waiting, NEW s, NEW k, Body(s, k),
           \/ Check \/ EndLine \/ ExecuteOverflow \/ ExecuteEmpty \/ ExecuteRefused \/ Execute
           \/ Wait \/ FinishJog \/ FinishBlock \/ Answer \/ Idle \/ Resume
    PROVE  Body(s, k)'
<1>1. UNCHANGED <<data, head, c, out, sent, cancelled>>
  BY DEF Check, EndLine, ExecuteOverflow, ExecuteEmpty, ExecuteRefused, Execute, Wait, FinishJog,
         FinishBlock, Answer, Idle, Resume, uMain, sender, uExecute, uLine, Goes, ring
<1>2. pc \notin {"tail", "char", "count", "read"} /\ pc' \notin {"tail", "char", "count"}
  BY DEF Check, EndLine, ExecuteOverflow, ExecuteEmpty, ExecuteRefused, Execute, Wait, FinishJog,
         FinishBlock, Answer, Idle, Resume, uExecute, uLine, Goes
<1>3. tail' = tail
  BY DEF Check, EndLine, ExecuteOverflow, ExecuteEmpty, ExecuteRefused, Execute, Wait, FinishJog,
         FinishBlock, Answer, Idle, Resume, uExecute, uLine, Goes, ring
<1>4. From' = From
  BY <1>2, <1>3 DEF From
<1>5. "RESET" \notin flags /\ "STOP" \notin flags /\ aborted = {}
  BY DEF CalmOK
<1>6. Serve => aborted' = {}
  BY <1>5 DEF Serve
<1>7. ~Answer => UNCHANGED <<line, char_counter, overflow>>
  BY DEF Check, EndLine, ExecuteOverflow, ExecuteEmpty, ExecuteRefused, Execute, Wait, FinishJog,
         FinishBlock, Idle, Resume, uExecute, uLine, Goes, assembly
<1>8. Idle => pc = "idle" /\ pc' = "resume"
  BY <1>6 DEF Idle
<1>9. Resume => pc = "resume" /\ pc' = "read"
  BY DEF Resume
<1>10. Answer => pc = "answer" /\ pc' = "read" /\ Empty'
  BY <1>5 DEF Answer, Empty
<1>11. k = 0 => (InHand /\ c = Can => InHand' \/ Clean') /\ (Clean => Clean')
  <2>1. ~InHand
    BY <1>2 DEF InHand
  <2>2. Clean => Idle \/ Resume
    BY DEF Check, EndLine, ExecuteOverflow, ExecuteEmpty, ExecuteRefused, Execute, Wait, FinishJog,
         FinishBlock, Answer, Clean
  <2>3. Clean => Clean'
    BY <1>7, <1>8, <1>9, <1>10, <2>2 DEF Clean, Empty
  <2> QED BY <2>1, <2>3
<1>12. AsmOK(s, k)'
  <2> SUFFICES ASSUME k > 0 PROVE Assembled(s[k].text, s[k].line, s[k].at)'
    BY DEF AsmOK
  <2>a. \E t, n, j : t = s[k].text /\ n = s[k].line /\ j = s[k].at
    OBVIOUS
  <2>b. PICK t, n, j : t = s[k].text /\ n = s[k].line /\ j = s[k].at
    BY <2>a
  <2>1. t \in Texts /\ j \in Nat /\ Len(t) \in Nat
    BY <2>b, HandIs
  <2>2. Assembled(t, n, j)
    BY <2>b DEF Body, AsmOK
  <2> SUFFICES Assembled(t, n, j)'
    BY <2>b
  <2>3. CASE Check
    <3>1. pc = "check" /\ pc' = "end"
      BY <1>6, <2>3 DEF Check
    <3> QED BY <1>7, <1>10, <2>2, <3>1 DEF Assembled, Upto, Holds, Whole, Empty
  <2>4. CASE EndLine
    <3>1. pc = "end" /\ pc' = "execute"
      BY <2>4 DEF EndLine
    <3>2. j > Len(t) /\ Upto(t, n, j - 1)
      BY <2>2, <3>1 DEF Assembled
    <3>3. overflow' \/ RunIs(t, n)'
      BY <2>1, <2>4, <3>2, WEndLine
    <3> QED BY <3>1, <3>2, <3>3 DEF Assembled
  <2>5. CASE ExecuteOverflow \/ ExecuteEmpty \/ ExecuteRefused \/ FinishJog \/ FinishBlock
    <3>1. pc \in {"execute", "block"} /\ pc' = "answer"
      BY <2>5 DEF ExecuteOverflow, ExecuteEmpty, ExecuteRefused, FinishJog, FinishBlock, Goes
    <3> QED BY <2>2, <3>1 DEF Assembled
  <2>6. CASE Execute
    <3>1. pc = "execute" /\ pc' = "block" /\ ~overflow /\ run' = run
      BY <2>6 DEF Execute, uLine
    <3> QED BY <2>2, <3>1 DEF Assembled, RunIs
  <2>7. CASE Wait
    <3>1. pc = "block" /\ pc' = "block" /\ run' = run
      BY <2>7 DEF Wait, uLine
    <3> QED BY <2>2, <3>1 DEF Assembled, RunIs
  <2>8. CASE Answer
    <3>1. j > Len(t) /\ ~(j <= Len(t))
      BY <1>10, <2>1, <2>2, <2>8 DEF Assembled
    <3> QED BY <1>10, <2>8, <3>1 DEF Assembled, Upto
  <2>9. CASE Idle \/ Resume
    <3>1. /\ pc \in {"idle", "resume"} /\ pc' \in {"resume", "read"}
          /\ UNCHANGED <<line, char_counter, overflow>>
      BY <1>7, <1>8, <1>9, <1>10, <2>9
    <3> QED BY <2>2, <3>1 DEF Assembled, Upto, Holds, Whole, Empty
  <2> QED BY <2>3, <2>4, <2>5, <2>6, <2>7, <2>8, <2>9
<1> QED BY <1>1, <1>4, <1>11, <1>12, WWork

\* A fresh start.
LEMMA Fresh ==
    ASSUME out = <<>>, sent = cancelled, Unread = 0, c.line <= cancelled, pc = "read", Empty
    PROVE  Body(<<>>, 0)
<1>1. StreamOK(<<>>)
  BY Nothing DEF StreamOK
<1>2. RingIs(<<>>, 0, 0)
  <2>1. Older(data, head, 0, Unread, cancelled)
    <3>1. \A d : d \notin (0 + 1)..0
      OBVIOUS
    <3> QED BY <3>1 DEF Older
  <2>2. Newest(data, head, <<>>, 0, 0 - 0)
    BY Nothing
  <2> QED BY <2>1, <2>2 DEF RingIs
<1>3. Marked(0)
  BY DEF Marked, Clean
<1> QED BY <1>1, <1>2, <1>3, Nothing DEF Body, RingOK, MarkOK, AsmOK

LEMMA WReinit ==
    ASSUME TInv, SentOK, Reinit, sent = cancelled, out = <<>>
    PROVE  Body(<<>>, 0)'
<1>1. /\ out' = <<>> /\ sent' = cancelled' /\ c'.line <= cancelled' /\ pc' = "read"
  BY DEF Reinit, SentOK
<1>2. Empty'
  BY DEF Reinit, Empty
<1>3. Unread' = 0
  <2>1. From' = head /\ head' = head
    BY <1>1 DEF Reinit, From
  <2> QED BY <2>1, FromIs, DistIs DEF Unread
<1>4. StreamOK(<<>>)'
  BY <1>1, Nothing DEF StreamOK
<1>5. RingIs(<<>>, 0, 0)'
  <2>1. Older(data', head', 0, Unread', cancelled')
    <3>1. \A d : d \notin (0 + 1)..0
      OBVIOUS
    <3> QED BY <1>3, <3>1 DEF Older
  <2>2. Newest(data', head', <<>>, 0, 0 - 0)
    BY Nothing
  <2> QED BY <1>1, <1>3, <2>1, <2>2 DEF RingIs
<1>6. Marked(0)'
  BY <1>1, <1>2, <1>3 DEF Marked, Clean
<1> QED BY <1>1, <1>4, <1>5, <1>6, Nothing DEF Body, RingOK, MarkOK, AsmOK

-----------------------------------------------------------------------------
\* What is said of every line: none is older than the sender knows, and a machine
\* that is not reset is calm.
LEMMA OutSent ==
    ASSUME PlainTexts, WInv, out # <<>>
    PROVE  Head(out) \in CharSet /\ Head(out).line <= sent /\ ~waiting
<1>1. ~waiting /\ TInv /\ out \in Seq(CharSet)
  BY DEF WInv, CalmOK, TInv, SenderT
<1>2. PICK s, k : Body(s, k)
  BY <1>1 DEF WInv
<1>3. Head(out) = out[1] /\ 1 \in 1..Len(out) /\ Len(out) \in Nat /\ Head(out) \in CharSet
  BY <1>1
<1>4. StreamOK(s) /\ Len(s) \in Nat /\ Got(s, out) \in Nat /\ out[1] = Sym(s[Got(s, out) + 1])
  BY <1>2, <1>3 DEF Body, StreamOK, Coming
<1>5. Got(s, out) + 1 \in 1..Len(s)
  BY <1>3, <1>4 DEF Got
<1>6. s[Got(s, out) + 1] \in Place /\ s[Got(s, out) + 1].line <= sent
      /\ Sym(s[Got(s, out) + 1]).line = s[Got(s, out) + 1].line
  BY <1>1, <1>4, <1>5, PlaceIs, SymIs
<1> QED BY <1>1, <1>3, <1>4, <1>6

LEMMA SentNext ==
    ASSUME PlainTexts, WInv, Next
    PROVE  SentOK'
<1>1. /\ TInv /\ SentOK /\ sent \in Nat /\ data \in [Cell -> CharSet] /\ head \in Cell /\ tail \in Cell
      /\ Can.line = 0
  BY LineInputAssumption, CanIs DEF WInv, TInv, SenderT, RingT
<1>2. CASE Receive
  <2>1. out # <<>> /\ sent' = sent /\ c' = c
    BY <1>2 DEF Receive
  <2>2. data' = data \/ data' = [data EXCEPT ![head] = Head(out)]
    BY <1>2 DEF Receive, Put
  <2> QED BY <1>1, <2>1, <2>2, OutSent DEF SentOK
<1>3. CASE Read
  BY <1>1, <1>3 DEF Read, SentOK, uMain, sender
<1>4. ASSUME NEW k \in {"cancel", "stop"}, ReceiveCancel(k) PROVE SentOK'
  BY <1>1, <1>4 DEF ReceiveCancel, Forget, CancelRead, SentOK
<1>5. ASSUME NEW t \in Texts, BeginLine(t) PROVE SentOK'
  <2>1. sent' = sent + 1 /\ data' = data /\ c' = c
    BY <1>5 DEF BeginLine, ring
  <2>2. \A i \in Cell : data[i].line \in Nat
    BY <1>1, LineInputAssumption DEF CharSet
  <2>3. c.line \in Nat
    BY <1>1, LineInputAssumption DEF CharSet, TInv, MainT
  <2> QED BY <1>1, <2>1, <2>2, <2>3 DEF SentOK
<1>6. CASE ReceiveHold
  <2>1. UNCHANGED ring
    BY <1>6 DEF ReceiveHold, Command, PlainTexts
  <2> QED BY <1>1, <1>6, <2>1 DEF ReceiveHold, SentOK, ring
<1>7. CASE ReceiveReset \/ JogEnds
  BY <1>1, <1>7 DEF ReceiveReset, JogEnds, Forget, SentOK, ring, sender
<1>8. CASE MainStep /\ ~Read
  <2>1. UNCHANGED <<data, c, sent>>
    BY <1>8 DEF MainStep, ReadTail, CharCan, CharEol, CharErase, CharStore, CharCount, Check, EndLine,
         ExecuteOverflow, ExecuteEmpty, ExecuteRefused, Execute, Wait, FinishJog,
         FinishBlock, Answer, Idle, Resume, Reinit, uMain, sender, uExecute, uLine, Goes, ring
  <2> QED BY <1>1, <2>1 DEF SentOK
<1> QED BY <1>2, <1>3, <1>4, <1>5, <1>6, <1>7, <1>8 DEF Next

LEMMA CalmNext ==
    ASSUME PlainTexts, WInv, Next
    PROVE  CalmOK'
<1>1. TInv /\ CalmOK
  BY DEF WInv
<1>2. CASE Receive
  <2>1. ~waiting /\ ~waiting' /\ pc' = pc /\ UNCHANGED machine
    BY <1>2, OutSent DEF Receive
  <2> QED BY <1>1, <2>1 DEF CalmOK, machine
<1>3. ASSUME NEW k \in {"cancel", "stop"}, ReceiveCancel(k) PROVE CalmOK'
  <2>1. k # "stop"
    BY <1>3 DEF ReceiveCancel, Command, PlainTexts
  <2>2. "STOP" \notin flags' /\ ("RESET" \in flags' => "RESET" \in flags)
    BY <1>1, <1>3, <2>1 DEF ReceiveCancel, CalmOK
  <2> QED BY <1>1, <1>3, <2>2 DEF ReceiveCancel, Forget, CalmOK
<1>4. CASE ReceiveReset
  BY <1>1, <1>4 DEF ReceiveReset, Forget, CalmOK
<1>5. CASE ReceiveHold
  BY <1>1, <1>5 DEF ReceiveHold, CalmOK, machine
<1>6. ASSUME NEW t \in Texts, BeginLine(t) PROVE CalmOK'
  BY <1>1, <1>6 DEF BeginLine, CalmOK, machine
<1>7. CASE JogEnds
  BY <1>1, <1>7 DEF JogEnds, CalmOK, sender
<1>8. CASE Reinit
  BY <1>1, <1>8 DEF Reinit, CalmOK
<1>9. CASE MainStep /\ ~Reinit
  <2>1. UNCHANGED <<sent, out, cancelled, waiting>>
    BY <1>9 DEF MainStep, Read, ReadTail, CharCan, CharEol, CharErase, CharStore, CharCount, Check, EndLine,
         ExecuteOverflow, ExecuteEmpty, ExecuteRefused, Execute, Wait, FinishJog,
         FinishBlock, Answer, Idle, Resume, uMain, sender, uExecute, uLine, Goes
  <2>2. CASE Check \/ Wait \/ Idle
    <3>1. Serve /\ flags' = {}
      BY <2>2 DEF Check, Wait, Idle, Serve
    <3>2. ~waiting => aborted' = {}
      BY <1>1, <3>1 DEF Serve, CalmOK
    <3>3. ~waiting => pc' # "reinit"
      BY <1>1, <2>2, <3>2 DEF Check, Wait, Idle, uLine
    <3> QED BY <1>1, <2>1, <3>1, <3>2, <3>3 DEF CalmOK
  <2>3. CASE ~(Check \/ Wait \/ Idle)
    <3>1. pc' # "reinit"
      BY <1>9, <2>3 DEF MainStep, Read, ReadTail, CharCan, CharEol, CharErase, CharStore, CharCount, EndLine,
         ExecuteOverflow, ExecuteEmpty, ExecuteRefused, Execute, FinishJog,
         FinishBlock, Answer, Resume, uExecute, uLine, Goes
    <3>2. /\ aborted = {} => aborted' = {}
          /\ "STOP" \in flags' => "STOP" \in flags
          /\ "RESET" \in flags' => "RESET" \in flags
      <4>1. CASE CharCan
        BY <4>1 DEF CharCan
      <4>2. CASE Resume
        BY <4>2 DEF Resume
      <4>3. CASE ~CharCan /\ ~Resume
        BY <1>9, <2>3, <4>3 DEF MainStep, Read, ReadTail, CharEol, CharErase, CharStore, CharCount, EndLine,
         ExecuteOverflow, ExecuteEmpty, ExecuteRefused, Execute, FinishJog,
         FinishBlock, Answer, uExecute, uLine, Goes, machine
      <4> QED BY <4>1, <4>2, <4>3
    <3> QED BY <1>1, <2>1, <3>1, <3>2 DEF CalmOK
  <2> QED BY <2>2, <2>3
<1> QED BY <1>2, <1>3, <1>4, <1>5, <1>6, <1>7, <1>8, <1>9 DEF Next, MainStep

LEMMA WInvInit ==
    ASSUME Init
    PROVE  WInv
<1>1. TInv
  BY TInvInit
<1>2. SentOK /\ CalmOK
  BY CanIs DEF Init, SentOK, CalmOK
<1>3. Body(<<>>, 0)
  <2>1. Unread = 0
    BY <1>1, FromIs, DistIs DEF Init, From, Unread
  <2>2. Empty /\ c.line <= cancelled
    BY CanIs DEF Init, Empty
  <2> QED BY <2>1, <2>2, Fresh DEF Init
<1> QED BY <1>1, <1>2, <1>3 DEF WInv

LEMMA WNext ==
    ASSUME PlainTexts, WInv, [Next]_vars, [~Overtakes]_vars, ~lost'
    PROVE  WInv'
<1>1. TInv /\ TInv'
  BY TInvNext DEF WInv
<1>2. CASE UNCHANGED vars
  <2>1. SentOK' /\ CalmOK' /\ waiting' = waiting
    BY <1>2 DEF WInv, SentOK, CalmOK, vars, ring, machine, sender
  <2>2. \A s, k : Body(s, k) => Body(s, k)'
    BY <1>2, WStill DEF vars, ring, machine, sender, assembly
  <2> QED BY <1>1, <2>1, <2>2 DEF WInv
<1>3. CASE Next /\ ~Overtakes
  <2>1. SentOK' /\ CalmOK'
    BY <1>3, SentNext, CalmNext
  <2> SUFFICES ASSUME ~waiting' PROVE \E s, k : Body(s, k)'
    BY <1>1, <2>1 DEF WInv
  <2>2. CASE Reinit
    <3>1. waiting => sent = cancelled /\ out = <<>>
      BY DEF WInv, CalmOK
    <3>2. waiting
      BY <2>2 DEF WInv, CalmOK, Reinit
    <3> QED BY <1>1, <2>2, <3>1, <3>2, WReinit DEF WInv
  <2>3. CASE ~Reinit
    <3>1. ~waiting
      BY <1>3, <2>3 DEF Next, Receive, ReceiveHold, ReceiveReset, ReceiveCancel, Forget, BeginLine, JogEnds,
         MainStep, Read, ReadTail, CharCan, CharEol, CharErase, CharStore, CharCount, Check, EndLine,
         ExecuteOverflow, ExecuteEmpty, ExecuteRefused, Execute, Wait, FinishJog,
         FinishBlock, Answer, Idle, Resume, uMain, sender, uExecute, uLine, Goes
    <3>2. PICK s, k : Body(s, k)
      BY <3>1 DEF WInv
    <3>3. CASE Receive
      BY <1>1, <1>3, <3>2, <3>3, WReceive
    <3>4. ASSUME NEW t \in Texts, BeginLine(t) PROVE \E z, j : Body(z, j)'
      <4>1. \E n : n = sent + 1
        OBVIOUS
      <4>2. PICK n : n = sent + 1
        BY <4>1
      <4>3. Body(s \o LineOf(t, n), k)'
        BY <1>1, <3>2, <3>4, <4>2, WBegin
      <4> QED BY <4>3
    <3>5. ASSUME NEW j \in {"cancel", "stop"}, ReceiveCancel(j) PROVE \E z, i : Body(z, i)'
      BY <1>1, <1>3, <3>5, WCancel DEF WInv
    <3>6. CASE ReceiveHold
      <4>1. UNCHANGED ring
        BY <3>6 DEF ReceiveHold, Command, PlainTexts
      <4> QED BY <3>2, <3>6, <4>1, WStill DEF ReceiveHold, ring, assembly
    <3>7. CASE JogEnds
      BY <3>2, <3>7, WStill DEF JogEnds, ring, assembly, sender
    <3>8. CASE ReceiveReset
      BY <3>8 DEF ReceiveReset
    <3>9. CASE Read
      BY <1>1, <3>2, <3>9, WRead
    <3>10. CASE ReadTail \/ CharCan \/ CharEol \/ CharErase \/ CharStore \/ CharCount
      BY <1>1, <3>2, <3>10, WReading
    <3>11. CASE \/ Check \/ EndLine \/ ExecuteOverflow \/ ExecuteEmpty \/ ExecuteRefused \/ Execute
                \/ Wait \/ FinishJog \/ FinishBlock \/ Answer \/ Idle \/ Resume
      BY <1>1, <3>1, <3>2, <3>11, WExecuting DEF WInv
    <3> QED BY <1>3, <2>3, <3>3, <3>4, <3>5, <3>6, <3>7, <3>8, <3>9, <3>10, <3>11 DEF Next, MainStep
  <2> QED BY <2>2, <2>3
<1> QED BY <1>2, <1>3

\* What is executed.
LEMMA WMeans ==
    ASSUME PlainTexts, WInv
    PROVE  LinesAreWhole
<1> SUFFICES ASSUME pc = "block", c.line > cancelled
             PROVE  /\ \A i \in DOMAIN run : run[i].line = c.line
                    /\ \E t \in Texts : [i \in DOMAIN run |-> run[i].g] = Meant(t)
  BY DEF LinesAreWhole
<1>1. TInv /\ run \in Seq(CharSet) /\ run # <<>> /\ cancelled \in Nat /\ sent \in Nat /\ c.line \in Nat
  BY LineInputAssumption DEF WInv, TInv, RunT, SenderT, MainT, CharSet
<1>2. ~waiting
  BY <1>1 DEF WInv, CalmOK, SentOK
<1>3. PICK s, k : Body(s, k)
  BY <1>2 DEF WInv
<1>4. k > 0
  <2>1. Got(s, out) \in Nat /\ k \in 0..Got(s, out) /\ (k = 0 => c.line <= cancelled)
    BY <1>3 DEF Body, StreamOK, Coming, RingOK, RingIs
  <2> QED BY <1>1, <2>1
<1> DEFINE t == s[k].text
           n == s[k].line
<1>5. t \in Texts /\ t \in Seq(Glyph) /\ c.line = n /\ n \in Nat
  BY <1>1, <1>3, <1>4, HandIs
<1>6. RunIs(t, n)
  BY <1>3, <1>4 DEF Body, AsmOK, Assembled
<1> HIDE DEF t, n
<1>7. Len(run) = Len(Meant(t)) /\ \A i \in 1..Len(run) : run[i] = Char(Meant(t)[i], n)
  BY <1>1, <1>6 DEF RunIs
<1>8. Meant(t) \in Seq(Glyph)
  <2>1. Len(t) \in 0..Len(t)
    BY <1>5
  <2> QED BY <1>5, <2>1, EditType DEF Meant
<1>9. DOMAIN run = 1..Len(run)
  BY <1>1
<1>10. \A i \in 1..Len(run) : run[i].line = n /\ run[i].g = Meant(t)[i]
  <2>1. \A g, l : Char(g, l).g = g /\ Char(g, l).line = l
    BY DEF Char
  <2> QED BY <1>7, <2>1
<1>11. [i \in DOMAIN run |-> run[i].g] = Meant(t)
  <2>1. Meant(t) = [i \in 1..Len(Meant(t)) |-> Meant(t)[i]]
    BY <1>8
  <2> QED BY <1>7, <1>9, <1>10, <2>1
<1> QED BY <1>5, <1>9, <1>10, <1>11

\* Whatever is sent, cancelled, reset or held, at any moment: a line that is executed is the
\* whole line as its sender meant it.  For lines that are edited only if they fit, without
\* CMD_STOP, and as long as no character is lost.
THEOREM WholeLines ==
    ASSUME PlainTexts
    PROVE  Spec /\ [][~Overtakes]_vars /\ []NothingLost => []LinesAreWhole
<1>1. Init => WInv
  BY WInvInit
<1>2. WInv /\ [Next]_vars /\ [~Overtakes]_vars /\ NothingLost' => WInv'
  BY WNext DEF NothingLost
<1>3. WInv => LinesAreWhole
  BY WMeans
<1> QED BY <1>1, <1>2, <1>3, PTL DEF Spec

-----------------------------------------------------------------------------
(* How many characters some lines have.                                    *)

Summed(u, m, k) == IF k = 0 THEN 0 ELSE m[k - 1] + u[k][2]
IsSum(u, n, m) == m = [k \in 0..n |-> Summed(u, m, k)]

LEMMA SumExists ==
    ASSUME NEW u, NEW n \in Nat
    PROVE  \E m : IsSum(u, n, m)
<1> DEFINE T == {i \in Nat : \E m : IsSum(u, i, m)}
<1>1. 0 \in T
  <2> DEFINE m == [k \in 0..0 |-> 0]
  <2>1. IsSum(u, 0, m)
    BY DEF Summed, IsSum
  <2> QED BY <2>1
<1>2. ASSUME NEW i \in T PROVE i + 1 \in T
  <2>1. i \in Nat /\ i + 1 \in Nat
    OBVIOUS
  <2>2. PICK m : IsSum(u, i, m)
    OBVIOUS
  <2> DEFINE v == [k \in 0..(i + 1) |-> IF k <= i THEN m[k] ELSE Summed(u, m, k)]
  <2>3. \A k \in 0..i : m[k] = Summed(u, m, k)
    BY <2>2 DEF IsSum
  <2>4. \A k \in 0..i : v[k] = m[k]
    BY <2>1
  <2>5. \A k \in 0..(i + 1) : v[k] = Summed(u, m, k)
    BY <2>1, <2>3
  <2> HIDE DEF v
  <2>6. \A k \in 0..(i + 1) : Summed(u, m, k) = Summed(u, v, k)
    <3> SUFFICES ASSUME NEW k \in 0..(i + 1), k # 0 PROVE m[k - 1] = v[k - 1]
      BY DEF Summed
    <3>1. k - 1 \in 0..i
      BY <2>1
    <3> QED BY <2>4, <3>1
  <2>7. \A k \in 0..(i + 1) : v[k] = Summed(u, v, k)
    BY <2>5, <2>6
  <2>8. IsSum(u, i + 1, v)
    <3>1. v = [k \in 0..(i + 1) |-> v[k]]
      BY DEF v
    <3> QED BY <2>7, <3>1 DEF IsSum
  <2> QED BY <2>1, <2>8
<1>3. T \in SUBSET Nat
  OBVIOUS
<1> HIDE DEF T
<1>4. n \in T
  BY <1>1, <1>2, <1>3, Induct
<1> QED BY <1>4 DEF T

LEMMA SumIs ==
    ASSUME NEW u \in Seq(Unanswered)
    PROVE  /\ Lengths(u)[0] = 0
           /\ \A k \in 1..Len(u) : Lengths(u)[k] = Lengths(u)[k - 1] + u[k][2]
           /\ \A k \in 0..Len(u) : Lengths(u)[k] \in Nat
<1> DEFINE m == Lengths(u)
           n == Len(u)
<1>1. n \in Nat
  OBVIOUS
<1>2. \E w : IsSum(u, n, w)
  BY <1>1, SumExists
<1>3. m = [k \in 0..n |-> Summed(u, m, k)]
  BY <1>2 DEF Lengths, IsSum, Summed
<1> HIDE DEF m
<1>4. \A k \in 0..n : m[k] = Summed(u, m, k)
  BY <1>3
<1>5. m[0] = 0 /\ \A k \in 1..n : m[k] = m[k - 1] + u[k][2]
  BY <1>1, <1>4 DEF Summed
<1> DEFINE T == {i \in Nat : i <= n => m[i] \in Nat}
<1>6. 0 \in T
  BY <1>5
<1>7. ASSUME NEW i \in T PROVE i + 1 \in T
  <2> SUFFICES ASSUME i + 1 <= n PROVE m[i + 1] \in Nat
    OBVIOUS
  <2>1. i \in Nat /\ i + 1 \in 1..n /\ (i + 1) - 1 = i /\ m[i] \in Nat
    BY <1>1
  <2>2. u[i + 1] \in Nat \X Nat
    BY <2>1 DEF Unanswered
  <2>3. u[i + 1][2] \in Nat
    BY <2>2
  <2>4. m[i + 1] = m[i] + u[i + 1][2]
    BY <1>5, <2>1
  <2> QED BY <2>1, <2>3, <2>4
<1>8. T \in SUBSET Nat
  OBVIOUS
<1> HIDE DEF T
<1>9. \A k \in 0..n : k \in T
  BY <1>1, <1>6, <1>7, <1>8, Induct
<1>10. \A k \in 0..n : m[k] \in Nat
  BY <1>9 DEF T
<1> QED BY <1>5, <1>10 DEF m

LEMMA SumAppend ==
    ASSUME NEW u \in Seq(Unanswered), NEW x \in Unanswered
    PROVE  Lengths(Append(u, x))[Len(u) + 1] = Lengths(u)[Len(u)] + x[2]
<1> DEFINE v == Append(u, x)
<1>1. /\ v \in Seq(Unanswered) /\ Len(v) = Len(u) + 1 /\ Len(u) \in Nat
      /\ v[Len(u) + 1] = x /\ \A i \in 1..Len(u) : v[i] = u[i]
  BY AppendProperties
<1> HIDE DEF v
<1> DEFINE T == {i \in Nat : i <= Len(u) => Lengths(v)[i] = Lengths(u)[i]}
<1>2. 0 \in T
  BY <1>1, SumIs
<1>3. ASSUME NEW i \in T PROVE i + 1 \in T
  <2> SUFFICES ASSUME i + 1 <= Len(u) PROVE Lengths(v)[i + 1] = Lengths(u)[i + 1]
    OBVIOUS
  <2>1. /\ i \in Nat /\ i + 1 \in 1..Len(u) /\ i + 1 \in 1..Len(v) /\ (i + 1) - 1 = i
        /\ Lengths(v)[i] = Lengths(u)[i]
    BY <1>1
  <2>2. /\ Lengths(v)[i + 1] = Lengths(v)[(i + 1) - 1] + v[i + 1][2]
        /\ Lengths(u)[i + 1] = Lengths(u)[(i + 1) - 1] + u[i + 1][2]
    BY <1>1, <2>1, SumIs
  <2>3. v[i + 1] = u[i + 1]
    BY <1>1, <2>1
  <2> QED BY <2>1, <2>2, <2>3
<1>4. T \in SUBSET Nat
  OBVIOUS
<1> HIDE DEF T
<1>5. Len(u) \in T
  <2>1. Len(u) \in 0..Len(u)
    BY <1>1
  <2>2. \A k \in 0..Len(u) : k \in T
    BY <1>1, <1>2, <1>3, <1>4, Induct
  <2> QED BY <2>1, <2>2
<1>6. Lengths(v)[Len(u)] = Lengths(u)[Len(u)]
  BY <1>5 DEF T
<1>7. Len(u) + 1 \in 1..Len(v) /\ (Len(u) + 1) - 1 = Len(u)
  BY <1>1
<1>8. Lengths(v)[Len(u) + 1] = Lengths(v)[Len(u)] + x[2]
  BY <1>1, <1>7, SumIs
<1> QED BY <1>6, <1>8 DEF v

LEMMA SumTail ==
    ASSUME NEW u \in Seq(Unanswered), u # <<>>
    PROVE  Lengths(u)[Len(u)] = Lengths(Tail(u))[Len(Tail(u))] + u[1][2]
<1> DEFINE v == Tail(u)
<1>1. /\ v \in Seq(Unanswered) /\ Len(v) = Len(u) - 1 /\ Len(u) \in Nat /\ Len(v) \in Nat
      /\ \A i \in 1..Len(v) : v[i] = u[i + 1]
  BY HeadTailProperties
<1>2. u[1][2] \in Nat
  <2>1. u[1] \in Nat \X Nat
    BY DEF Unanswered
  <2> QED BY <2>1
<1> HIDE DEF v
<1> DEFINE T == {i \in Nat : i <= Len(v) => Lengths(u)[i + 1] = Lengths(v)[i] + u[1][2]}
<1>3. 0 \in T
  <2>1. 1 \in 1..Len(u) /\ 1 - 1 = 0
    BY <1>1
  <2>2. Lengths(u)[0] = 0 /\ Lengths(v)[0] = 0 /\ Lengths(u)[1] = Lengths(u)[1 - 1] + u[1][2]
    BY <1>1, <2>1, SumIs
  <2>3. Lengths(u)[0 + 1] = Lengths(v)[0] + u[1][2]
    BY <2>1, <2>2
  <2> QED BY <2>3
<1>4. ASSUME NEW i \in T PROVE i + 1 \in T
  <2> SUFFICES ASSUME i + 1 <= Len(v) PROVE Lengths(u)[i + 1 + 1] = Lengths(v)[i + 1] + u[1][2]
    OBVIOUS
  <2>1. /\ i \in Nat /\ i + 1 \in 1..Len(v) /\ i + 1 + 1 \in 1..Len(u) /\ i \in 0..Len(v)
        /\ (i + 1) - 1 = i /\ (i + 1 + 1) - 1 = i + 1
        /\ Lengths(u)[i + 1] = Lengths(v)[i] + u[1][2]
    BY <1>1
  <2>2. /\ Lengths(u)[i + 1 + 1] = Lengths(u)[i + 1] + u[i + 1 + 1][2]
        /\ Lengths(v)[i + 1] = Lengths(v)[i] + v[i + 1][2]
        /\ Lengths(v)[i] \in Nat
    BY <1>1, <2>1, SumIs
  <2>3. v[i + 1] = u[i + 1 + 1] /\ u[i + 1 + 1] \in Unanswered
    BY <1>1, <2>1
  <2>4. u[i + 1 + 1][2] \in Nat
    BY <2>3 DEF Unanswered
  <2> QED BY <1>2, <2>1, <2>2, <2>3, <2>4
<1>5. T \in SUBSET Nat
  OBVIOUS
<1> HIDE DEF T
<1>6. Len(v) \in T
  <2>1. Len(v) \in 0..Len(v)
    BY <1>1
  <2>2. \A k \in 0..Len(v) : k \in T
    BY <1>1, <1>3, <1>4, <1>5, Induct
  <2> QED BY <2>1, <2>2
<1>7. Lengths(u)[Len(v) + 1] = Lengths(v)[Len(v)] + u[1][2]
  BY <1>6 DEF T
<1>8. Len(v) + 1 = Len(u)
  BY <1>1
<1> QED BY <1>7, <1>8 DEF v

-----------------------------------------------------------------------------
(* A sender that counts: what it has not been answered for is what the     *)
(* main loop has not finished, from the beginning of its line.             *)

\* Lines end in one character, no jog is cancelled, and the window is smaller than the ring.
Paced == PlainTexts /\ Commands \subseteq {"reset", "hold"} /\ Len(Eol) = 1 /\ Window < Ring

Finished(s, k, p) == Final(s[k]) /\ p \in {"read", "idle", "resume"}
Done(s, k, p) == IF k = 0 THEN 0 ELSE IF Finished(s, k, p) THEN k ELSE k - s[k].at
First(s, k, p, z) == IF k = 0 THEN z + 1 ELSE IF Finished(s, k, p) THEN s[k].line + 1 ELSE s[k].line
Owed(s, u, d, a, last) ==
    /\ Lengths(u)[Len(u)] = Len(s) - d /\ Len(u) = last + 1 - a
    /\ \A j \in 1..Len(s) : j > d => /\ s[j].line + 1 - a \in 1..Len(u)
                                     /\ u[s[j].line + 1 - a][2] = Size(s[j].text)
PaceOK(s, k) ==
    /\ Owed(s, unacked, Done(s, k, pc), First(s, k, pc, cancelled), sent)
    /\ Len(s) - Done(s, k, pc) <= Window
    /\ k = 0 => Got(s, out) = Unread /\ Clean
    /\ pc = "tail" => tail # head /\ Next1(tail) = reg
    /\ eol \in {"none", Eol[1]}

PInv == /\ TInv /\ SentOK /\ CalmOK /\ ~lost
        /\ waiting => unacked = <<>>
        /\ waiting \/ \E s, k : Body(s, k) /\ PaceOK(s, k)

LEMMA PInvW == PInv => WInv
BY DEF PInv, WInv

LEMMA PacedIs ==
    ASSUME Paced
    PROVE  /\ PlainTexts /\ Window \in Nat /\ Ring \in Nat /\ Window < Ring /\ MaxLines \in Nat
           /\ \A t \in Texts : Size(t) = Len(t) + 1 /\ Len(t) \in Nat
BY SizeIs, LineInputAssumption DEF Paced

\* Where the main loop is in its stream.
LEMMA DoneIs ==
    ASSUME Paced, TInv, NEW s, NEW k, Body(s, k)
    PROVE  /\ s \in Seq(Place) /\ Len(s) \in Nat /\ Got(s, out) \in Nat /\ Got(s, out) = Len(s) - Len(out)
           /\ k \in Nat /\ k <= Got(s, out) /\ Len(out) \in Nat /\ Got(s, out) - k <= Unread
           /\ k > 0 => /\ k \in 1..Len(s) /\ Got(s, out) - k = Unread
                       /\ s[k].at \in Nat /\ s[k].at >= 1 /\ s[k].line \in Nat /\ s[k].text \in Texts
                       /\ s[k].at <= Len(s[k].text) + 1 /\ Len(s[k].text) \in Nat
                       /\ Size(s[k].text) = Len(s[k].text) + 1
                       /\ Final(s[k]) <=> s[k].at > Len(s[k].text)
<1>1. /\ s \in Seq(Place) /\ Len(s) \in Nat /\ Got(s, out) \in Nat /\ Got(s, out) = Len(s) - Len(out)
      /\ Len(out) \in Nat /\ StreamOK(s)
  BY DEF Body, StreamOK, Coming, Got, TInv, SenderT
<1>2. k \in 0..Got(s, out) /\ (k > 0 => Got(s, out) - k = Unread) /\ Got(s, out) - k <= Unread
  BY DEF Body, RingOK, RingIs
<1>3. k \in Nat /\ k <= Got(s, out) /\ (k > 0 => k \in 1..Len(s))
  BY <1>1, <1>2
<1>4. ASSUME k > 0
      PROVE  /\ s[k].at \in Nat /\ s[k].at >= 1 /\ s[k].line \in Nat /\ s[k].text \in Texts
             /\ s[k].at <= Len(s[k].text) + 1 /\ Len(s[k].text) \in Nat
             /\ Size(s[k].text) = Len(s[k].text) + 1
             /\ Final(s[k]) <=> s[k].at > Len(s[k].text)
  <2>1. s[k] \in Place /\ s[k].at \in 1..Size(s[k].text)
    BY <1>1, <1>3, <1>4, PlaceIs
  <2>2. s[k].at \in Nat /\ s[k].line \in Nat /\ s[k].text \in Texts
    BY <2>1 DEF Place
  <2>3. Size(s[k].text) = Len(s[k].text) + 1 /\ Len(s[k].text) \in Nat
    BY <2>2, PacedIs
  <2>4. s[k].at >= 1 /\ s[k].at <= Len(s[k].text) + 1
    BY <2>1, <2>2, <2>3
  <2> QED BY <2>2, <2>3, <2>4 DEF Final
<1> QED BY <1>1, <1>2, <1>3, <1>4

\* There is room for what is still to come.
LEMMA Room ==
    ASSUME Paced, TInv, NEW s, NEW k, Body(s, k), PaceOK(s, k), out # <<>>
    PROVE  Next1(head) # tail /\ (pc = "tail" => Next1(head) # reg)
<1>1. /\ Len(s) \in Nat /\ Got(s, out) \in Nat /\ Got(s, out) = Len(s) - Len(out)
      /\ k \in Nat /\ Len(out) \in Nat
      /\ k > 0 => Got(s, out) - k = Unread /\ s[k].at \in Nat /\ s[k].at >= 1
  BY DoneIs
<1>2. Len(out) >= 1
  BY <1>1 DEF TInv, SenderT
<1>3. From \in Cell /\ head \in Cell /\ tail \in Cell /\ Unread \in 0..(Ring - 1) /\ Ring \in Nat
      /\ Window \in Nat /\ Window < Ring
  BY FromIs, PacedIs DEF TInv, RingT
<1>4. Len(s) - Done(s, k, pc) <= Window /\ (k = 0 => Got(s, out) = Unread /\ Clean)
  BY DEF PaceOK
<1>5. Done(s, k, pc) \in Int /\ Done(s, k, pc) <= k /\ (k > 0 /\ pc = "tail" => Done(s, k, pc) < k)
  BY <1>1 DEF Done, Finished
<1>6. Got(s, out) - k = Unread
  BY <1>1, <1>4
<1>7. Unread < Ring - 1
  BY <1>1, <1>2, <1>3, <1>4, <1>5, <1>6
<1>8. CASE pc = "tail"
  <2>1. k > 0 /\ From = reg /\ tail # head /\ Next1(tail) = reg
    BY <1>1, <1>4, <1>8 DEF From, PaceOK, Clean
  <2>2. Unread < Ring - 1 - 1
    BY <1>1, <1>2, <1>3, <1>4, <1>5, <1>6, <1>8, <2>1
  <2>3. Dist(tail, head) = Unread + 1
    <3>1. Unread = Dist(tail, head) - 1 /\ Dist(tail, head) \in 0..(Ring - 1)
      BY <1>3, <2>1, DistIs DEF Unread
    <3> QED BY <1>3, <3>1
  <2>4. Dist(tail, head) # Ring - 1 /\ Dist(reg, head) # Ring - 1 /\ reg \in Cell
    BY <1>3, <2>1, <2>2, <2>3 DEF Unread
  <2> QED BY <1>3, <2>4, DistIs
<1>9. CASE pc # "tail"
  <2>1. Dist(tail, head) # Ring - 1
    BY <1>3, <1>7, <1>9 DEF Unread, From
  <2> QED BY <1>3, <1>9, <2>1, DistIs
<1> QED BY <1>8, <1>9

LEMMA PReceive ==
    ASSUME Paced, TInv, TInv', ~lost, NEW s, NEW k, Body(s, k), PaceOK(s, k), Receive
    PROVE  Body(s, k)' /\ PaceOK(s, k)' /\ ~lost'
<1>1. out # <<>> /\ Put(Head(out))
  BY DEF Receive
<1>2. Next1(head) # tail /\ (pc = "tail" => Next1(head) # reg)
  BY <1>1, Room
<1>3. head' = Next1(head) /\ tail' = tail /\ lost' = lost
  BY <1>1, <1>2 DEF Put
<1>4. ~Overtakes
  BY <1>2, <1>3 DEF Overtakes
<1>5. Body(s, k)' /\ Got(s, out') = Got(s, out) + 1 /\ Unread' = Unread + 1
  BY <1>3, <1>4, WReceive
<1>6. UNCHANGED <<pc, unacked, cancelled, sent, eol, reg, char_counter, overflow>>
  BY DEF Receive
<1>7. PaceOK(s, k)'
  BY <1>2, <1>3, <1>5, <1>6 DEF PaceOK, Clean, Empty
<1> QED BY <1>3, <1>5, <1>7

LEMMA DoneNat ==
    ASSUME Paced, TInv, NEW s, NEW k, Body(s, k)
    PROVE  Done(s, k, pc) \in Int /\ First(s, k, pc, cancelled) \in Nat
<1>1. /\ k \in Nat /\ cancelled \in Nat
      /\ k > 0 => s[k].at \in Nat /\ s[k].line \in Nat
  BY DoneIs DEF TInv, SenderT
<1> QED BY <1>1 DEF Done, First

\* A step that leaves the count of the sender alone.
LEMMA PaceStays ==
    ASSUME NEW s, NEW k, PaceOK(s, k), UNCHANGED <<unacked, cancelled, sent>>,
           Done(s, k, pc') = Done(s, k, pc), First(s, k, pc', cancelled) = First(s, k, pc, cancelled),
           k = 0 => Got(s, out') = Unread' /\ Clean', pc' # "tail", eol' \in {"none", Eol[1]}
    PROVE  PaceOK(s, k)'
BY DEF PaceOK

LEMMA Longer ==
    ASSUME Paced, NEW s \in Seq(Place), NEW t \in Texts, NEW n \in Nat
    PROVE  /\ s \o LineOf(t, n) \in Seq(Place) /\ Len(s \o LineOf(t, n)) = Len(s) + Size(t)
           /\ \A j \in 1..Len(s) : (s \o LineOf(t, n))[j] = s[j]
           /\ \A j \in (Len(s) + 1)..(Len(s) + Size(t)) :
                 (s \o LineOf(t, n))[j].line = n /\ (s \o LineOf(t, n))[j].text = t
<1>1. Size(t) \in Nat /\ Len(s) \in Nat
  BY PacedIs
<1> DEFINE e == LineOf(t, n)
<1>2. e \in Seq(Place) /\ Len(e) = Size(t) /\ \A i \in 1..Size(t) : e[i].line = n /\ e[i].text = t
  <2>1. \A i \in 1..Size(t) : [line |-> n, at |-> i, text |-> t] \in Place
    BY <1>1 DEF Place
  <2> QED BY <1>1, <2>1 DEF LineOf
<1> HIDE DEF e
<1>3. /\ s \o e \in Seq(Place) /\ Len(s \o e) = Len(s) + Len(e)
      /\ \A j \in 1..(Len(s) + Len(e)) : (s \o e)[j] = IF j <= Len(s) THEN s[j] ELSE e[j - Len(s)]
  BY <1>2, ConcatProperties
<1>4. \A j \in 1..Len(s) : j \in 1..(Len(s) + Len(e)) /\ j <= Len(s)
  BY <1>1, <1>2
<1>5. \A j \in (Len(s) + 1)..(Len(s) + Size(t)) :
         j \in 1..(Len(s) + Len(e)) /\ ~(j <= Len(s)) /\ j - Len(s) \in 1..Size(t)
  BY <1>1, <1>2
<1>6. \A j \in 1..Len(s) : (s \o e)[j] = s[j]
  BY <1>3, <1>4
<1>7. \A j \in (Len(s) + 1)..(Len(s) + Size(t)) : (s \o e)[j].line = n /\ (s \o e)[j].text = t
  BY <1>2, <1>3, <1>5
<1> QED BY <1>2, <1>3, <1>6, <1>7 DEF e

LEMMA OwedMore ==
    ASSUME Paced, NEW s \in Seq(Place), NEW t \in Texts, NEW n \in Nat, NEW u \in Seq(Unanswered),
           NEW d \in Int, NEW a \in Nat, Owed(s, u, d, a, n - 1)
    PROVE  Owed(s \o LineOf(t, n), Append(u, <<n, Size(t)>>), d, a, n)
<1>1. Size(t) \in Nat /\ Len(s) \in Nat /\ Len(u) \in Nat
  BY PacedIs
<1>2. <<n, Size(t)>> \in Unanswered /\ <<n, Size(t)>>[2] = Size(t)
  BY <1>1 DEF Unanswered
<1> DEFINE z == s \o LineOf(t, n)
           v == Append(u, <<n, Size(t)>>)
<1>3. /\ Len(z) = Len(s) + Size(t)
      /\ \A j \in 1..Len(s) : z[j] = s[j]
      /\ \A j \in (Len(s) + 1)..(Len(s) + Size(t)) : z[j].line = n /\ z[j].text = t
  BY Longer
<1>4. /\ Len(v) = Len(u) + 1 /\ v[Len(u) + 1] = <<n, Size(t)>> /\ \A i \in 1..Len(u) : v[i] = u[i]
      /\ Lengths(v)[Len(u) + 1] = Lengths(u)[Len(u)] + Size(t)
  <2>1. Lengths(v)[Len(u) + 1] = Lengths(u)[Len(u)] + Size(t)
    BY <1>2, SumAppend
  <2> QED BY <1>2, <2>1, AppendProperties
<1> HIDE DEF z, v
<1>5. /\ Lengths(u)[Len(u)] = Len(s) - d /\ Len(u) = n - a
      /\ \A j \in 1..Len(s) : j > d => /\ s[j].line + 1 - a \in 1..Len(u)
                                       /\ u[s[j].line + 1 - a][2] = Size(s[j].text)
  <2>1. (n - 1) + 1 - a = n - a
    OBVIOUS
  <2> QED BY <2>1 DEF Owed
<1>6. Lengths(v)[Len(v)] = Len(z) - d /\ Len(v) = n + 1 - a
  BY <1>1, <1>3, <1>4, <1>5
<1>7. ASSUME NEW j \in 1..Len(z), j > d
      PROVE  z[j].line + 1 - a \in 1..Len(v) /\ v[z[j].line + 1 - a][2] = Size(z[j].text)
  <2>1. CASE j <= Len(s)
    <3>1. j \in 1..Len(s)
      BY <1>1, <1>3, <2>1
    <3>2. z[j] = s[j] /\ s[j].line + 1 - a \in 1..Len(u) /\ u[s[j].line + 1 - a][2] = Size(s[j].text)
      BY <1>3, <1>5, <1>7, <3>1
    <3>3. \A i \in 1..Len(u) : i \in 1..Len(v) /\ v[i] = u[i]
      BY <1>1, <1>4
    <3> QED BY <3>2, <3>3
  <2>2. CASE ~(j <= Len(s))
    <3>1. j \in (Len(s) + 1)..(Len(s) + Size(t))
      BY <1>1, <1>3, <2>2
    <3>2. z[j].line = n /\ z[j].text = t
      BY <1>3, <3>1
    <3>3. n + 1 - a = Len(u) + 1 /\ Len(u) + 1 \in 1..Len(v)
      BY <1>1, <1>4, <1>5
    <3> QED BY <1>2, <1>4, <3>2, <3>3
  <2> QED BY <2>1, <2>2
<1>8. Owed(z, v, d, a, n)
  BY <1>6, <1>7 DEF Owed
<1> QED BY <1>8 DEF z, v

LEMMA PBegin ==
    ASSUME Paced, TInv, NEW s, NEW k, Body(s, k), PaceOK(s, k), NEW t \in Texts, BeginLine(t),
           NEW n, n = sent + 1
    PROVE  Body(s \o LineOf(t, n), k)' /\ PaceOK(s \o LineOf(t, n), k)'
<1>1. Body(s \o LineOf(t, n), k)'
  BY PacedIs, WBegin
<1>2. /\ s \in Seq(Place) /\ Len(s) \in Nat /\ Got(s, out) = Len(s) /\ out = <<>>
      /\ k \in Nat /\ k <= Len(s) /\ (k > 0 => k \in 1..Len(s))
      /\ Size(t) \in Nat /\ Window \in Nat
      /\ sent \in Nat /\ n \in Nat /\ n - 1 = sent /\ unacked \in Seq(Unanswered) /\ cancelled \in Nat
  <2>1. out = <<>> /\ Len(out) = 0
    BY DEF BeginLine
  <2>2. s \in Seq(Place) /\ Len(s) \in Nat /\ Got(s, out) = Len(s) /\ k \in Nat /\ k <= Len(s)
    BY <2>1, DoneIs
  <2>3. sent \in Nat /\ n \in Nat /\ n - 1 = sent /\ unacked \in Seq(Unanswered) /\ cancelled \in Nat
    BY PacedIs DEF TInv, SenderT
  <2> QED BY <2>1, <2>2, <2>3, PacedIs
<1>3. /\ unacked' = Append(unacked, <<n, Size(t)>>) /\ sent' = n
      /\ InFlight + Size(t) <= Window /\ Len(out') = Size(t)
      /\ UNCHANGED <<head, tail, pc, reg, eol, cancelled, char_counter, overflow>>
  BY <1>2 DEF BeginLine, Size, ring, assembly
<1> DEFINE z == s \o LineOf(t, n)
<1>4. /\ Len(z) = Len(s) + Size(t) /\ \A j \in 1..Len(s) : z[j] = s[j]
  BY <1>2, Longer
<1>a. /\ \E d : d = Done(s, k, pc)
      /\ \E a : a = First(s, k, pc, cancelled)
  OBVIOUS
<1>b. PICK d : d = Done(s, k, pc)
  BY <1>a
<1>c. PICK a : a = First(s, k, pc, cancelled)
  BY <1>a
<1>5. d \in Int /\ a \in Nat
  BY <1>b, <1>c, DoneNat
<1>6. Owed(s, unacked, d, a, n - 1)
  BY <1>2, <1>b, <1>c DEF PaceOK
<1>7. Owed(z, Append(unacked, <<n, Size(t)>>), d, a, n)
  BY <1>2, <1>5, <1>6, OwedMore
<1> HIDE DEF z
<1>8. Done(z, k, pc) = d /\ First(z, k, pc, cancelled) = a
  <2>1. k > 0 => z[k] = s[k]
    BY <1>2, <1>4
  <2>2. k = 0 \/ k > 0
    BY <1>2
  <2> QED BY <1>b, <1>c, <2>1, <2>2 DEF Done, First, Finished
<1>9. Len(z) - d <= Window
  <2>1. InFlight = Len(s) - d
    BY <1>6 DEF Owed, InFlight
  <2>2. (Len(s) - d) + Size(t) <= Window
    BY <1>3, <2>1
  <2>3. Len(z) = Len(s) + Size(t)
    BY <1>4
  <2> QED BY <1>2, <1>5, <2>2, <2>3
<1>10. Got(z, out') = Got(s, out)
  BY <1>2, <1>3, <1>4 DEF Got
<1>11. PaceOK(z, k)'
  <2>1. k = 0 => Got(z, out') = Unread' /\ Clean'
    BY <1>3, <1>10 DEF PaceOK, Unread, From, Clean, Empty
  <2>2. pc' = "tail" => tail' # head' /\ Next1(tail') = reg'
    BY <1>3 DEF PaceOK
  <2>3. eol' \in {"none", Eol[1]}
    BY <1>3 DEF PaceOK
  <2>4. Owed(z, unacked', Done(z, k, pc'), First(z, k, pc', cancelled'), sent')
    BY <1>3, <1>7, <1>8
  <2>5. Len(z) - Done(z, k, pc') <= Window
    BY <1>3, <1>8, <1>9
  <2> QED BY <2>1, <2>2, <2>3, <2>4, <2>5 DEF PaceOK
<1> QED BY <1>1, <1>11 DEF z

\* The next character is read.
LEMMA PRead ==
    ASSUME Paced, TInv, NEW s, NEW k, Body(s, k), PaceOK(s, k), Read
    PROVE  \E i : Body(s, i)' /\ PaceOK(s, i)'
<1>1. /\ pc = "read" /\ From = tail
      /\ UNCHANGED <<unacked, cancelled, sent, eol, tail, head, out, char_counter, overflow>>
  BY DEF Read, From, uMain, sender, assembly
<1>2. /\ k \in Nat /\ (k = 0 => Got(s, out) = Unread /\ Clean) /\ eol' \in {"none", Eol[1]}
      /\ k > 0 => k \in 1..Len(s) /\ s[k].at \in Nat /\ s[k].line \in Nat
      /\ s \in Seq(Place) /\ Len(s) \in Nat /\ cancelled \in Nat
  BY <1>1, DoneIs DEF PaceOK, TInv, SenderT
<1>3. PlainTexts
  BY PacedIs
<1>4. CASE pc' = "idle" /\ Body(s, k)'
  <2>1. Done(s, k, pc') = Done(s, k, pc) /\ First(s, k, pc', cancelled) = First(s, k, pc, cancelled)
    BY <1>1, <1>4 DEF Done, First, Finished
  <2>2. k = 0 => Got(s, out') = Unread' /\ Clean'
    BY <1>1, <1>2, <1>4 DEF Unread, From, Clean, Empty
  <2>3. PaceOK(s, k)'
    BY <1>1, <1>2, <1>4, <2>1, <2>2, PaceStays
  <2> QED BY <1>4, <2>3
<1>5. CASE pc' = "tail" /\ k + 1 \in 1..Got(s, out) /\ Body(s, k + 1)'
  <2>1. tail' # head' /\ Next1(tail') = reg'
    BY <1>1, <1>5 DEF Read
  <2>2. k + 1 \in 1..Len(s) /\ Follows(s, cancelled)
    <3>1. Got(s, out) \in Nat /\ Got(s, out) = Len(s) - Len(out) /\ Len(out) \in Nat
      BY DoneIs
    <3> QED BY <1>2, <1>5, <3>1 DEF Body, StreamOK
  <2>3. /\ Done(s, k + 1, pc') = (k + 1) - s[k + 1].at
        /\ First(s, k + 1, pc', cancelled) = s[k + 1].line
    BY <1>2, <1>5 DEF Done, First, Finished
  <2>4. /\ Done(s, k, pc) = (k + 1) - s[k + 1].at
        /\ First(s, k, pc, cancelled) = s[k + 1].line
    <3>1. CASE k = 0
      <4>1. s[k + 1].at = 1 /\ s[k + 1].line = cancelled + 1
        BY <2>2, <3>1 DEF Follows
      <4> QED BY <3>1, <4>1 DEF Done, First
    <3>2. CASE k > 0
      <4>1. k + 1 # 1 /\ (k + 1) - 1 = k
        BY <1>2, <3>2
      <4>2. IF Final(s[k]) THEN s[k + 1].at = 1 /\ s[k + 1].line = s[k].line + 1
            ELSE s[k + 1].at = s[k].at + 1 /\ s[k + 1].line = s[k].line
        BY <2>2, <4>1 DEF Follows
      <4> QED BY <1>1, <1>2, <3>2, <4>2 DEF Done, First, Finished
    <3> QED BY <1>2, <3>1, <3>2
  <2>5. k + 1 # 0
    BY <1>2
  <2>6. /\ Owed(s, unacked', Done(s, k + 1, pc'), First(s, k + 1, pc', cancelled'), sent')
        /\ Len(s) - Done(s, k + 1, pc') <= Window
    BY <1>1, <2>3, <2>4 DEF PaceOK
  <2>7. PaceOK(s, k + 1)'
    BY <1>2, <2>1, <2>5, <2>6 DEF PaceOK
  <2> QED BY <1>5, <2>7
<1>6. ~(k = 0 /\ Got(s, out) < Unread)
  <2>1. Got(s, out) \in Nat
    BY DoneIs
  <2> QED BY <1>2, <2>1
<1> QED BY <1>3, <1>4, <1>5, <1>6, WRead

\* Lines end in the one character of Eol.
LEMMA EndsIn ==
    ASSUME Paced, TInv, NEW s, NEW k, Body(s, k), k > 0, s[k].at > Len(s[k].text)
    PROVE  c.g = Eol[1]
<1>1. /\ k \in 1..Len(s) /\ s[k].text \in Texts /\ s[k].at \in Nat /\ s[k].at = Len(s[k].text) + 1
      /\ Len(s[k].text) \in Nat
  BY DoneIs
<1>2. s[k].text \in Seq(Glyph) /\ Eol \in Seq(Glyph) /\ Len(Eol) = 1
  BY <1>1, Wires DEF Paced
<1>3. \A t \in Seq(Glyph) : (t \o Eol)[Len(t) + 1] = Eol[1]
  <2> SUFFICES ASSUME NEW t \in Seq(Glyph) PROVE (t \o Eol)[Len(t) + 1] = Eol[1]
    OBVIOUS
  <2>1. Len(t) + 1 \in 1..(Len(t) + Len(Eol)) /\ ~(Len(t) + 1 <= Len(t)) /\ (Len(t) + 1) - Len(t) = 1
    BY <1>2
  <2>2. \A i \in 1..(Len(t) + Len(Eol)) : (t \o Eol)[i] = IF i <= Len(t) THEN t[i] ELSE Eol[i - Len(t)]
    BY <1>2, ConcatProperties
  <2> QED BY <2>1, <2>2
<1>4. c = Sym(s[k])
  BY DEF Body, RingOK, RingIs
<1>5. Sym(s[k]) = Char((s[k].text \o Eol)[s[k].at], s[k].line)
  BY DEF Sym
<1>6. c.g = (s[k].text \o Eol)[s[k].at]
  <2>1. \A g, l : Char(g, l).g = g
    BY DEF Char
  <2> QED BY <1>4, <1>5, <2>1, Zenon
<1> QED BY <1>1, <1>2, <1>3, <1>6

LEMMA PReading ==
    ASSUME Paced, TInv, NEW s, NEW k, Body(s, k), PaceOK(s, k),
           ReadTail \/ CharCan \/ CharEol \/ CharErase \/ CharStore \/ CharCount
    PROVE  PaceOK(s, k)'
<1>1. UNCHANGED <<unacked, cancelled, sent>> /\ pc \in {"tail", "char", "count"}
  BY DEF ReadTail, CharCan, CharEol, CharErase, CharStore, CharCount, uMain, sender
<1>2. k \in Nat /\ k # 0 /\ k > 0 /\ eol \in {"none", Eol[1]}
  <2>1. k # 0 /\ eol \in {"none", Eol[1]}
    BY <1>1 DEF PaceOK, Clean
  <2> QED BY <2>1, DoneIs
<1>3. /\ s[k].at \in Nat /\ Len(s[k].text) \in Nat /\ (Final(s[k]) <=> s[k].at > Len(s[k].text))
      /\ c.g # "CAN" /\ (IF s[k].at <= Len(s[k].text) THEN ~IsEol(c.g) ELSE IsEol(c.g))
  BY <1>2, DoneIs, HandIs, PacedIs
<1>4. IsEol(c.g) => c.g = Eol[1]
  BY <1>2, <1>3, EndsIn
<1>5. ReadTail => pc' = "char" /\ eol' = eol
  BY DEF ReadTail, assembly
<1>6. ~CharCan
  BY <1>3 DEF CharCan
<1>7. CharEol => pc' = "check" /\ eol' = Eol[1]
  BY <1>2, <1>4 DEF CharEol
<1>8. CharErase \/ CharStore => pc' \in {"read", "count"} /\ eol' = eol /\ ~Final(s[k])
  BY <1>3 DEF CharErase, CharStore, IsEol
<1>9. CharCount => pc' = "read" /\ eol' = eol /\ ~Final(s[k])
  <2>1. pc = "count" => s[k].at <= Len(s[k].text)
    BY <1>2 DEF Body, AsmOK, Assembled, Counts
  <2> QED BY <1>3, <2>1 DEF CharCount
<1>10. eol' \in {"none", Eol[1]} /\ pc' # "tail" /\ ~Finished(s, k, pc') /\ ~Finished(s, k, pc)
  BY <1>1, <1>2, <1>5, <1>6, <1>7, <1>8, <1>9 DEF Finished
<1>11. Done(s, k, pc') = Done(s, k, pc) /\ First(s, k, pc', cancelled) = First(s, k, pc, cancelled)
  BY <1>10 DEF Done, First
<1> QED BY <1>1, <1>2, <1>10, <1>11, PaceStays

\* A line is executed: it is the first that is not answered.
LEMMA PExecuting ==
    ASSUME Paced, TInv, CalmOK, ~waiting, NEW s, NEW k, Body(s, k), PaceOK(s, k),
           \/ Check \/ EndLine \/ ExecuteOverflow \/ ExecuteEmpty \/ ExecuteRefused \/ Execute
           \/ Wait \/ FinishJog \/ FinishBlock \/ Idle \/ Resume
    PROVE  PaceOK(s, k)'
<1>1. UNCHANGED <<unacked, cancelled, sent, out, head, tail, char_counter, overflow>>
  BY DEF Check, EndLine, ExecuteOverflow, ExecuteEmpty, ExecuteRefused, Execute, Wait, FinishJog,
         FinishBlock, Idle, Resume, uMain, sender, uExecute, uLine, Goes, ring, assembly
<1>2. eol' \in {eol, "none"}
  BY DEF Check, EndLine, ExecuteOverflow, ExecuteEmpty, ExecuteRefused, Execute, Wait, FinishJog,
         FinishBlock, Idle, Resume, uLine, uExecute, assembly
<1>3. eol' \in {"none", Eol[1]}
  BY <1>2 DEF PaceOK
<1>4. Serve => aborted' = {}
  BY DEF Serve, CalmOK
<1>5. CASE Idle \/ Resume
  <2>1. pc \in {"idle", "resume"} /\ pc' \in {"resume", "read"}
    BY <1>4, <1>5 DEF Idle, Resume
  <2>2. Done(s, k, pc') = Done(s, k, pc) /\ First(s, k, pc', cancelled) = First(s, k, pc, cancelled)
    BY <2>1 DEF Done, First, Finished
  <2>3. k = 0 => Got(s, out') = Unread' /\ Clean'
    BY <1>1, <2>1 DEF PaceOK, Unread, From, Clean, Empty
  <2> QED BY <1>1, <1>3, <2>1, <2>2, <2>3, PaceStays
<1>6. CASE ~(Idle \/ Resume)
  <2>1. pc \in {"check", "end", "execute", "block"} /\ pc' \in {"end", "execute", "block", "answer"}
    BY <1>4, <1>6 DEF Check, EndLine, ExecuteOverflow, ExecuteEmpty, ExecuteRefused, Execute, Wait, FinishJog,
         FinishBlock, uExecute, uLine, Goes
  <2>2. k # 0
    BY <2>1 DEF PaceOK, Clean
  <2>3. Done(s, k, pc') = Done(s, k, pc) /\ First(s, k, pc', cancelled) = First(s, k, pc, cancelled)
    BY <2>1 DEF Done, First, Finished
  <2> QED BY <1>1, <1>3, <2>1, <2>2, <2>3, PaceStays
<1> QED BY <1>5, <1>6

LEMMA LaterLines ==
    ASSUME TInv, NEW s, StreamOK(s), NEW k \in 1..Len(s), Final(s[k])
    PROVE  \A j \in 1..Len(s) : j > k => s[j].line > s[k].line
<1>1. s \in Seq(Place) /\ Len(s) \in Nat /\ Follows(s, cancelled) /\ k \in Nat /\ k >= 1
  <2>1. s \in Seq(Place) /\ Len(s) \in Nat /\ Follows(s, cancelled)
    BY DEF StreamOK
  <2> QED BY <2>1
<1>2. \A j \in 1..Len(s) : s[j].line \in Nat
  <2>1. \A j \in 1..Len(s) : s[j] \in Place
    BY <1>1
  <2> QED BY <2>1 DEF Place
<1> DEFINE T == {i \in Nat : k + 1 + i <= Len(s) => s[k + 1 + i].line > s[k].line}
<1>3. 0 \in T
  <2> SUFFICES ASSUME k + 1 + 0 <= Len(s) PROVE s[k + 1 + 0].line > s[k].line
    OBVIOUS
  <2>1. k + 1 + 0 \in 1..Len(s) /\ k + 1 + 0 # 1 /\ (k + 1 + 0) - 1 = k
    BY <1>1
  <2>2. s[k + 1 + 0].line = s[k].line + 1
    BY <1>1, <2>1 DEF Follows
  <2> QED BY <1>2, <2>2
<1>4. ASSUME NEW i \in T PROVE i + 1 \in T
  <2> SUFFICES ASSUME k + 1 + (i + 1) <= Len(s) PROVE s[k + 1 + (i + 1)].line > s[k].line
    OBVIOUS
  <2>1. i \in Nat /\ (k + 1 + i <= Len(s) => s[k + 1 + i].line > s[k].line)
    OBVIOUS
  <2> DEFINE m == k + 1 + (i + 1)
  <2>2. m \in 1..Len(s) /\ m # 1 /\ m - 1 = k + 1 + i /\ m - 1 \in 1..Len(s)
    <3>1. \A x, y, z \in Nat : x >= 1 /\ x + 1 + (y + 1) <= z =>
             /\ x + 1 + (y + 1) \in 1..z /\ x + 1 + (y + 1) # 1
             /\ (x + 1 + (y + 1)) - 1 = x + 1 + y /\ (x + 1 + (y + 1)) - 1 \in 1..z
      OBVIOUS
    <3> QED BY <1>1, <2>1, <3>1
  <2>3. s[m - 1].line > s[k].line
    BY <1>1, <2>1, <2>2
  <2> HIDE DEF m
  <2>4. s[m].line = s[m - 1].line + 1 \/ s[m].line = s[m - 1].line
    BY <1>1, <2>2 DEF Follows
  <2>5. s[m].line \in Nat /\ s[m - 1].line \in Nat /\ s[k].line \in Nat
    BY <1>2, <2>2
  <2>6. s[m].line > s[k].line
    BY <2>3, <2>4, <2>5
  <2> QED BY <2>6 DEF m
<1>5. T \in SUBSET Nat
  OBVIOUS
<1> HIDE DEF T
<1>6. ASSUME NEW j \in 1..Len(s), j > k PROVE s[j].line > s[k].line
  <2>1. j - (k + 1) \in 0..Len(s) /\ k + 1 + (j - (k + 1)) = j /\ j <= Len(s)
    BY <1>1, <1>6
  <2>2. \A i \in 0..Len(s) : i \in T
    BY <1>1, <1>3, <1>4, <1>5, Induct
  <2>3. j - (k + 1) \in T
    BY <2>1, <2>2
  <2> QED BY <2>1, <2>3 DEF T
<1> QED BY <1>6

\* The sender takes the first of its lines out of its count.
LEMMA OwedLess ==
    ASSUME Paced, TInv, NEW s, StreamOK(s), NEW u \in Seq(Unanswered), NEW k \in 1..Len(s), Final(s[k]),
           NEW last \in Nat, Owed(s, u, k - s[k].at, s[k].line, last), s[k].at = Size(s[k].text)
    PROVE  u # <<>> /\ Owed(s, Tail(u), k, s[k].line + 1, last)
<1>1. /\ s \in Seq(Place) /\ Len(s) \in Nat /\ k \in Nat
      /\ \A j \in 1..Len(s) : s[j].line \in Nat
      /\ s[k].at \in Nat /\ s[k].at >= 1
  <2>1. s \in Seq(Place) /\ \A j \in 1..Len(s) : s[j] \in Place
    BY DEF StreamOK
  <2>2. s[k] \in Place /\ s[k].at \in 1..Size(s[k].text)
    BY PlaceIs
  <2>3. s[k].text \in Texts
    BY <2>2 DEF Place
  <2>4. Size(s[k].text) \in Nat
    BY <2>3, PacedIs
  <2>5. \A j \in 1..Len(s) : s[j].line \in Nat
    BY <2>1 DEF Place
  <2>6. s[k].at \in Nat /\ s[k].at >= 1
    BY <2>2, <2>4 DEF Place
  <2>7. Len(s) \in Nat /\ k \in Nat
    BY <2>1
  <2> QED BY <2>1, <2>5, <2>6, <2>7
<1>a. \E a, b : a = s[k].line /\ b = s[k].at
  OBVIOUS
<1>b. PICK a, b : a = s[k].line /\ b = s[k].at
  BY <1>a
<1>2. /\ a \in Nat /\ b \in Nat /\ b >= 1 /\ Size(s[k].text) = b
      /\ Lengths(u)[Len(u)] = Len(s) - (k - b) /\ Len(u) = last + 1 - a
      /\ \A j \in 1..Len(s) : j > k - b => /\ s[j].line + 1 - a \in 1..Len(u)
                                           /\ u[s[j].line + 1 - a][2] = Size(s[j].text)
  BY <1>1, <1>b DEF Owed
<1>3. 1 \in 1..Len(u) /\ u[1][2] = b
  <2>1. k > k - b /\ a + 1 - a = 1
    BY <1>1, <1>2
  <2> QED BY <1>2, <1>b, <2>1
<1>4. u # <<>> /\ Len(u) \in Nat
  BY <1>3
<1> DEFINE v == Tail(u)
<1>5. /\ Len(v) = Len(u) - 1 /\ \A i \in 1..Len(v) : v[i] = u[i + 1]
      /\ Lengths(u)[Len(u)] = Lengths(v)[Len(v)] + b /\ Lengths(v)[Len(v)] \in Nat
  <2>1. v \in Seq(Unanswered) /\ Len(v) = Len(u) - 1 /\ \A i \in 1..Len(v) : v[i] = u[i + 1]
    BY <1>4, HeadTailProperties
  <2>2. Lengths(u)[Len(u)] = Lengths(v)[Len(v)] + u[1][2]
    BY <1>4, SumTail
  <2>3. Len(v) \in 0..Len(v)
    BY <1>4, <2>1
  <2>4. Lengths(v)[Len(v)] \in Nat
    BY <2>1, <2>3, SumIs
  <2> QED BY <1>3, <2>1, <2>2, <2>4
<1> HIDE DEF v
<1>6. Lengths(v)[Len(v)] = Len(s) - k
  <2>1. \A x, y \in Nat : x + y = Len(s) - (k - y) => x = Len(s) - k
    BY <1>1
  <2>2. Lengths(v)[Len(v)] + b = Len(s) - (k - b)
    BY <1>2, <1>5
  <2> QED BY <1>2, <1>5, <2>1, <2>2
<1>7. Len(v) = last + 1 - (a + 1)
  BY <1>2, <1>5
<1>8. ASSUME NEW j \in 1..Len(s), j > k
      PROVE  s[j].line + 1 - (a + 1) \in 1..Len(v) /\ v[s[j].line + 1 - (a + 1)][2] = Size(s[j].text)
  <2>1. PICK l : l = s[j].line
    OBVIOUS
  <2>2. l \in Nat /\ l > a
    BY <1>1, <1>8, <1>b, <2>1, LaterLines
  <2>3. l + 1 - a \in 1..Len(u) /\ u[l + 1 - a][2] = Size(s[j].text)
    <3>1. j > k - b
      BY <1>1, <1>2, <1>8
    <3> QED BY <1>2, <2>1, <3>1
  <2>4. l + 1 - (a + 1) \in 1..Len(v) /\ (l + 1 - (a + 1)) + 1 = l + 1 - a
    BY <1>2, <1>4, <1>5, <2>2, <2>3
  <2>5. v[l + 1 - (a + 1)] = u[l + 1 - a]
    BY <1>5, <2>4
  <2> QED BY <2>1, <2>3, <2>4, <2>5
<1>9. Owed(s, v, k, a + 1, last)
  BY <1>6, <1>7, <1>8 DEF Owed
<1> QED BY <1>4, <1>9, <1>b DEF v

LEMMA PAnswer ==
    ASSUME Paced, TInv, CalmOK, ~waiting, NEW s, NEW k, Body(s, k), PaceOK(s, k), Answer
    PROVE  PaceOK(s, k)'
<1>1. /\ aborted = {} /\ pc = "answer" /\ pc' = "read"
      /\ unacked' = IF unacked = <<>> THEN <<>> ELSE Tail(unacked)
      /\ UNCHANGED <<eol, sent, cancelled>>
  BY DEF CalmOK, Answer
<1>2. k # 0
  BY <1>1 DEF PaceOK, Clean
<1>3. /\ k \in 1..Len(s) /\ StreamOK(s) /\ k > 0 /\ k \in Nat /\ Len(s) \in Nat
      /\ Size(s[k].text) = Len(s[k].text) + 1 /\ s[k].at \in Nat /\ s[k].at <= Len(s[k].text) + 1
      /\ Len(s[k].text) \in Nat /\ (Final(s[k]) <=> s[k].at > Len(s[k].text))
      /\ Window \in Nat
  BY <1>2, DoneIs, PacedIs DEF Body
<1>4. s[k].at > Len(s[k].text)
  BY <1>1, <1>3 DEF Body, AsmOK, Assembled
<1>5. Final(s[k]) /\ s[k].at = Size(s[k].text)
  BY <1>3, <1>4
<1>6. Done(s, k, pc) = k - s[k].at /\ First(s, k, pc, cancelled) = s[k].line
  BY <1>1, <1>2 DEF Done, First, Finished
<1>7. Done(s, k, pc') = k /\ First(s, k, pc', cancelled) = s[k].line + 1
  BY <1>1, <1>2, <1>5 DEF Done, First, Finished
<1>8. Owed(s, unacked, k - s[k].at, s[k].line, sent) /\ Len(s) - (k - s[k].at) <= Window
  BY <1>6 DEF PaceOK
<1>9. unacked \in Seq(Unanswered) /\ sent \in Nat
  BY PacedIs DEF TInv, SenderT
<1>10. unacked # <<>> /\ Owed(s, Tail(unacked), k, s[k].line + 1, sent)
  BY <1>3, <1>5, <1>8, <1>9, OwedLess
<1>11. Len(s) - k <= Window
  BY <1>3, <1>8
<1> QED BY <1>1, <1>2, <1>7, <1>10, <1>11 DEF PaceOK

\* The sender has begun nothing since the last reset.
LEMMA OwedNothing ==
    ASSUME Paced, NEW z \in Nat
    PROVE  \A p : Owed(<<>>, <<>>, Done(<<>>, 0, p), First(<<>>, 0, p, z), z)
                  /\ Len(<<>>) - Done(<<>>, 0, p) <= Window
<1>1. <<>> \in Seq(Unanswered) /\ Len(<<>>) = 0 /\ 1..0 = {} /\ Window \in Nat
  BY PacedIs
<1>2. Lengths(<<>>)[0] = 0
  BY <1>1, SumIs
<1>3. Owed(<<>>, <<>>, 0, z + 1, z)
  BY <1>1, <1>2 DEF Owed
<1>4. \A p : Done(<<>>, 0, p) = 0 /\ First(<<>>, 0, p, z) = z + 1
  BY DEF Done, First
<1> QED BY <1>1, <1>3, <1>4

LEMMA PReinit ==
    ASSUME Paced, TInv, TInv', SentOK, Reinit, sent = cancelled, out = <<>>, unacked = <<>>
    PROVE  Body(<<>>, 0)' /\ PaceOK(<<>>, 0)'
<1>1. Body(<<>>, 0)'
  BY WReinit
<1>2. /\ unacked' = <<>> /\ sent' = cancelled' /\ out' = <<>> /\ pc' = "read" /\ eol' = "none"
      /\ tail' = head' /\ char_counter' = 0 /\ ~overflow' /\ cancelled' \in Nat
  BY DEF Reinit, TInv, SenderT
<1>3. Unread' = 0
  <2>1. Dist(tail', head') = 0
    BY <1>2, DistIs DEF TInv, RingT
  <2> QED BY <1>2, <2>1 DEF Unread, From
<1>4. Got(<<>>, out') = Unread' /\ Clean'
  BY <1>2, <1>3, Nothing DEF Clean, Empty
<1>5. \A p : Owed(<<>>, <<>>, Done(<<>>, 0, p), First(<<>>, 0, p, cancelled'), cancelled')
             /\ Len(<<>>) - Done(<<>>, 0, p) <= Window
  BY <1>2, OwedNothing
<1>6. /\ Owed(<<>>, unacked', Done(<<>>, 0, pc'), First(<<>>, 0, pc', cancelled'), sent')
      /\ Len(<<>>) - Done(<<>>, 0, pc') <= Window
  BY <1>2, <1>5
<1> QED BY <1>1, <1>2, <1>4, <1>6 DEF PaceOK

LEMMA PInvInit ==
    ASSUME Paced, Init
    PROVE  PInv
<1>1. TInv /\ SentOK /\ CalmOK
  BY WInvInit DEF WInv
<1>2. Unread = 0
  BY <1>1, FromIs, DistIs DEF Init, From, Unread
<1>3. Empty /\ c.line <= cancelled /\ out = <<>> /\ sent = cancelled /\ pc = "read" /\ eol = "none"
      /\ unacked = <<>> /\ cancelled \in Nat
  BY CanIs DEF Init, Empty
<1>4. Body(<<>>, 0)
  BY <1>2, <1>3, Fresh
<1>5. Got(<<>>, out) = Unread /\ Clean
  BY <1>2, <1>3, Nothing DEF Clean
<1>6. /\ Owed(<<>>, unacked, Done(<<>>, 0, pc), First(<<>>, 0, pc, cancelled), sent)
      /\ Len(<<>>) - Done(<<>>, 0, pc) <= Window
  BY <1>3, OwedNothing
<1>7. PaceOK(<<>>, 0)
  BY <1>3, <1>5, <1>6 DEF PaceOK
<1> QED BY <1>1, <1>4, <1>7 DEF PInv, Init

\* Nothing of the stream and the count changes.
LEMMA PStill ==
    ASSUME NEW s, NEW k, PaceOK(s, k),
           UNCHANGED <<head, tail, pc, reg, char_counter, overflow, eol, out, sent, unacked, cancelled>>
    PROVE  PaceOK(s, k)'
BY DEF PaceOK, Unread, From, Clean, Empty

LEMMA WaitsForNothing ==
    ASSUME PInv, Next
    PROVE  waiting' => unacked' = <<>>
<1>1. waiting => unacked = <<>>
  BY DEF PInv
<1>2. CASE ReceiveReset
  BY <1>2 DEF ReceiveReset, Forget
<1>3. ASSUME NEW k \in {"cancel", "stop"}, ReceiveCancel(k) PROVE unacked' = <<>>
  BY <1>3 DEF ReceiveCancel, Forget
<1>4. CASE Answer
  BY <1>1, <1>4 DEF Answer
<1>5. ASSUME NEW t \in Texts, BeginLine(t) PROVE ~waiting'
  BY <1>5 DEF BeginLine
<1>6. CASE Reinit
  BY <1>6 DEF Reinit
<1>7. CASE Receive \/ ReceiveHold \/ JogEnds \/ (MainStep /\ ~Answer /\ ~Reinit)
  <2>1. UNCHANGED <<waiting, unacked>>
    BY <1>7 DEF Receive, ReceiveHold, JogEnds,
         MainStep, Read, ReadTail, CharCan, CharEol, CharErase, CharStore, CharCount, Check, EndLine,
         ExecuteOverflow, ExecuteEmpty, ExecuteRefused, Execute, Wait, FinishJog,
         FinishBlock, Idle, Resume, uMain, sender, uExecute, uLine, Goes
  <2> QED BY <1>1, <2>1
<1> QED BY <1>2, <1>3, <1>4, <1>5, <1>6, <1>7 DEF Next

LEMMA PNext ==
    ASSUME Paced, PInv, [Next]_vars
    PROVE  PInv'
<1>1. PlainTexts /\ WInv /\ TInv /\ TInv' /\ SentOK /\ CalmOK /\ ~lost
  BY PInvW, PacedIs, TInvNext DEF PInv
<1>2. CASE UNCHANGED vars
  <2>1. SentOK' /\ CalmOK' /\ waiting' = waiting /\ lost' = lost /\ unacked' = unacked
    BY <1>1, <1>2 DEF SentOK, CalmOK, vars, ring, machine, sender
  <2>2. \A s, k : Body(s, k) => Body(s, k)'
    BY <1>2, WStill DEF vars, ring, machine, sender, assembly
  <2>3. \A s, k : PaceOK(s, k) => PaceOK(s, k)'
    BY <1>2, PStill DEF vars, ring, machine, sender, assembly
  <2> QED BY <1>1, <2>1, <2>2, <2>3 DEF PInv
<1>3. CASE Next
  <2>1. SentOK' /\ CalmOK' /\ (waiting' => unacked' = <<>>)
    BY <1>1, <1>3, SentNext, CalmNext, WaitsForNothing
  <2>2. /\ ~ \E j \in {"cancel", "stop"} : ReceiveCancel(j)
        /\ ReceiveHold => UNCHANGED ring
    BY DEF ReceiveCancel, ReceiveHold, Command, Paced, PlainTexts
  <2>3. CASE Reinit
    <3>1. waiting
      BY <1>1, <2>3 DEF CalmOK, Reinit
    <3>2. sent = cancelled /\ out = <<>> /\ unacked = <<>> /\ ~lost'
      BY <1>1, <2>3, <3>1 DEF CalmOK, PInv, Reinit
    <3>3. Body(<<>>, 0)' /\ PaceOK(<<>>, 0)'
      BY <1>1, <2>3, <3>2, PReinit
    <3> QED BY <1>1, <2>1, <3>2, <3>3 DEF PInv
  <2>4. CASE waiting /\ ~Reinit
    <3>1. out = <<>>
      BY <1>1, <2>4 DEF CalmOK
    <3>2. waiting' /\ lost' = lost
      BY <1>3, <2>2, <2>4, <3>1 DEF Next, Receive, ReceiveHold, ReceiveReset, Forget, BeginLine, JogEnds,
         MainStep, Read, ReadTail, CharCan, CharEol, CharErase, CharStore, CharCount, Check, EndLine,
         ExecuteOverflow, ExecuteEmpty, ExecuteRefused, Execute, Wait, FinishJog,
         FinishBlock, Answer, Idle, Resume, uMain, sender, uExecute, uLine, Goes, ring
    <3> QED BY <1>1, <2>1, <3>2 DEF PInv
  <2>5. CASE ~waiting /\ ~Reinit
    <3>1. PICK s, k : Body(s, k) /\ PaceOK(s, k)
      BY <2>5 DEF PInv
    <3>2. CASE Receive
      <4>1. Body(s, k)' /\ PaceOK(s, k)' /\ ~lost'
        BY <1>1, <3>1, <3>2, PReceive
      <4> QED BY <1>1, <2>1, <4>1 DEF PInv
    <3>3. CASE ~Receive
      <4>1. lost' = lost
        BY <1>3, <2>2, <2>5, <3>3 DEF Next, ReceiveHold, ReceiveReset, Forget, BeginLine, JogEnds,
           MainStep, Read, ReadTail, CharCan, CharEol, CharErase, CharStore, CharCount, Check, EndLine,
           ExecuteOverflow, ExecuteEmpty, ExecuteRefused, Execute, Wait, FinishJog,
           FinishBlock, Answer, Idle, Resume, uMain, uExecute, uLine, Goes, ring
      <4> SUFFICES ASSUME ~waiting' PROVE \E z, j : Body(z, j)' /\ PaceOK(z, j)'
        BY <1>1, <2>1, <4>1 DEF PInv
      <4>2. ASSUME NEW t \in Texts, BeginLine(t) PROVE \E z, j : Body(z, j)' /\ PaceOK(z, j)'
        <5>1. \E n : n = sent + 1
          OBVIOUS
        <5>2. PICK n : n = sent + 1
          BY <5>1
        <5>3. Body(s \o LineOf(t, n), k)' /\ PaceOK(s \o LineOf(t, n), k)'
          BY <1>1, <3>1, <4>2, <5>2, PBegin
        <5> QED BY <5>3
      <4>3. CASE ReceiveHold
        BY <2>2, <3>1, <4>3, WStill, PStill DEF ReceiveHold, ring, assembly
      <4>4. CASE JogEnds
        BY <3>1, <4>4, WStill, PStill DEF JogEnds, ring, assembly, sender
      <4>5. CASE ReceiveReset
        BY <4>5 DEF ReceiveReset
      <4>6. CASE Read
        BY <1>1, <3>1, <4>6, PRead
      <4>7. CASE ReadTail \/ CharCan \/ CharEol \/ CharErase \/ CharStore \/ CharCount
        BY <1>1, <3>1, <4>7, WReading, PReading
      <4>8. CASE \/ Check \/ EndLine \/ ExecuteOverflow \/ ExecuteEmpty \/ ExecuteRefused \/ Execute
                 \/ Wait \/ FinishJog \/ FinishBlock \/ Idle \/ Resume
        BY <1>1, <2>5, <3>1, <4>8, WExecuting, PExecuting
      <4>9. CASE Answer
        BY <1>1, <2>5, <3>1, <4>9, WExecuting, PAnswer
      <4> QED BY <1>3, <2>2, <2>5, <3>3, <4>2, <4>3, <4>4, <4>5, <4>6, <4>7, <4>8, <4>9 DEF Next, MainStep
    <3> QED BY <3>2, <3>3
  <2> QED BY <2>3, <2>4, <2>5
<1> QED BY <1>2, <1>3

\* Where the ring has room, the interrupt does not come round it.
LEMMA PNotOver ==
    ASSUME Paced, PInv, [Next]_vars
    PROVE  ~Overtakes
<1> SUFFICES ASSUME pc = "tail", head' # head PROVE head' # reg
  BY DEF Overtakes
<1>1. TInv /\ CalmOK
  BY DEF PInv
<1>2. Receive
  <2>1. ~ \E j \in {"cancel", "stop"} : ReceiveCancel(j)
    BY DEF ReceiveCancel, Command, Paced
  <2>2. ReceiveHold => UNCHANGED ring
    BY DEF ReceiveHold, Command, Paced, PlainTexts
  <2>3. MainStep \/ ReceiveReset \/ JogEnds \/ (\E t \in Texts : BeginLine(t)) \/ UNCHANGED vars
        => head' = head
    BY DEF vars, ReceiveReset, JogEnds, BeginLine,
           MainStep, Read, ReadTail, CharCan, CharEol, CharErase, CharStore, CharCount, Check, EndLine,
           ExecuteOverflow, ExecuteEmpty, ExecuteRefused, Execute, Wait, FinishJog,
           FinishBlock, Answer, Idle, Resume, Reinit, uMain, uExecute, uLine, Goes, ring
  <2> QED BY <2>1, <2>2, <2>3 DEF Next, ring
<1>3. out # <<>> /\ head' = Next1(head)
  BY <1>2 DEF Receive, Put
<1>4. ~waiting
  BY <1>1, <1>3 DEF CalmOK
<1>5. PICK s, k : Body(s, k) /\ PaceOK(s, k)
  BY <1>4 DEF PInv
<1> QED BY <1>1, <1>3, <1>5, Room

\* The count that the protocol asks of the sender is enough: whatever the ring and the window,
\* and whenever it is reset or held, no character finds the ring full, each line that is executed
\* is as it was sent, and the interrupt never comes round the ring to the tail being stored, so
\* that no jog survives a reset.
THEOREM CountedLines ==
    ASSUME Paced
    PROVE  Spec => [](NothingLost /\ LinesAreWhole /\ JogNeverOutlivesCancel)
<1>1. Init => PInv
  BY PInvInit
<1>2. PInv /\ [Next]_vars => PInv' /\ [~Overtakes]_vars
  BY PNext, PNotOver
<1>3. PInv => NothingLost /\ LinesAreWhole
  BY PInvW, WMeans, PacedIs DEF PInv, NothingLost
<1>4. Spec => [](NothingLost /\ LinesAreWhole) /\ [][~Overtakes]_vars
  BY <1>1, <1>2, <1>3, PTL DEF Spec
<1> QED BY <1>4, CancelledJogsEnd, PTL
=============================================================================
