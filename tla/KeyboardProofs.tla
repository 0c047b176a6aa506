--------------------------- MODULE KeyboardProofs ---------------------------
(***************************************************************************)
(* Proofs about the keyboard interrupt and the console, for every screen,  *)
(* every number of key events and every configuration of the firmware.     *)
(***************************************************************************)
EXTENDS Keyboard, TLAPS

Byte == 0 .. 255

Entry == [src : {"keyboard", "controller"}, byte : Byte]

Kpcs == {"idle", "char", "load_x", "store_x", "test_x", "return", "load_y", "store_y",
         "test_y", "top", "ready", "send", "done"}

TypeOK ==
  /\ out \in Seq(Entry) /\ config \in Byte /\ local \in Byte
  /\ latch \subseteq {0, 1} /\ boot \in 1 .. 11 /\ events \in Nat
  /\ hpc \in {"none", "entry", "decode", "exit", "fault"}
  /\ sc \in Byte /\ htext \in Seq(Int)
  /\ cursor_x \in Nat /\ cursor_y \in Nat /\ reg \in Nat /\ lost \in Nat
  /\ kpc \in Kpcs

\* Interrupts are enabled only behind the tables; only IRQ1 is let through.
Gated ==
  /\ boot > 1 => base = 32 /\ 0 \in mask
  /\ boot > 2 => 33 \in gates
  /\ (iflag \/ hpc # "none") => boot > 9
  /\ iflag => hpc = "none"
  /\ hpc # "fault"

\* Off the screen only between the update of a coordinate and its test.
Placed ==
  /\ kpc \notin {"test_x", "return"} => cursor_x < fb_width
  /\ kpc \notin {"test_y", "top"} => cursor_y < fb_height

\* A character is lost only if the interrupt came between test and write.
Counted ==
  /\ lost <= 1
  /\ hpc # "none" => lost = 0
  /\ (kpc = "send" /\ thr) => lost = 0
  /\ hpc = "none" => htext = <<>>

\* What ps2_init writes back is what the controller answered.
Translating ==
  /\ boot <= 4 => ~mistaken
  /\ ~mistaken =>
       /\ config \in 64 .. 127
       /\ boot > 4 => local \in 64 .. 127 /\ Bit(local, 1)
       /\ boot > 5 => Bit(config, 1)
       /\ \A i \in DOMAIN out : out[i].src = "controller" => out[i].byte \in 64 .. 127

Press(b) == b \in {42, 54}
Release(b) == b \in {170, 182}

\* shift_down, as it is once the byte that the handler has read is decoded.
WillBeDown ==
  IF hpc = "decode" /\ sc # 224 /\ sc % 128 \in {42, 54} THEN sc < 128 ELSE shift_down

\* While shift is up, its release is still to be read if its press was, and
\* follows its press if that is still to be read.  A prefix is never the last byte.
Releasing ==
  /\ boot <= 9 => ~shift_down /\ ~extended
  /\ ~mistaken =>
       /\ out # <<>> => out[Len(out)].byte # 224
       /\ (IF hpc = "decode" THEN sc = 224 ELSE extended) => out # <<>>
       /\ "shift" \notin held =>
            /\ WillBeDown => \E j \in DOMAIN out : Release(out[j].byte)
            /\ \A i \in DOMAIN out : Press(out[i].byte) =>
                 \E j \in DOMAIN out : j > i /\ Release(out[j].byte)

IInv == TypeOK /\ Gated /\ Placed /\ Counted /\ Translating /\ Releasing

-----------------------------------------------------------------------------
(* The order of kmain, and the arithmetic of the configuration byte *)

\* A step of kmain is at one place of its order.
LEMMA BootPlaces ==
  ASSUME TypeOK
  PROVE  /\ BootOrder[boot] = "pic_remap" => boot = 1
         /\ BootOrder[boot] = "idt_init" => boot = 2
         /\ BootOrder[boot] = "ask" => boot = 3
         /\ BootOrder[boot] = "read_config" => boot = 4
         /\ BootOrder[boot] = "write_config" => boot = 5
         /\ BootOrder[boot] = "scan" => boot = 6
         /\ BootOrder[boot] = "read_ack" => boot = 7
         /\ BootOrder[boot] = "enable_irq" => boot = 8
         /\ BootOrder[boot] = "sti" => boot = 9
         /\ BootOrder[boot] = "klog" => boot = 10
  <1>1. boot \in 1 .. 11
    BY DEF TypeOK
  <1> QED BY <1>1, SMTT(60) DEF BootOrder

\* ps2_init sets bit 0 and leaves bit 6: the byte stays a byte, and translating.
LEMMA NewConfigByte ==
  ASSUME NEW c \in Byte PROVE NewConfig(c) \in Byte
  BY DEF NewConfig, Bit, Byte

LEMMA NewConfigTranslates ==
  ASSUME NEW c \in 64 .. 127 PROVE NewConfig(c) \in 64 .. 127 /\ Bit(NewConfig(c), 1)
  BY DEF NewConfig, Bit, Byte

\* A configuration of the firmware translates.
LEMMA Bit6 == ASSUME NEW c \in 64 .. 127 PROVE Bit(c, 64)
  BY DEF Bit

\* The elements of a sequence.
LEMMA Elements ==
  ASSUME NEW S, NEW s \in Seq(S)
  PROVE  Len(s) \in Nat /\ DOMAIN s = 1 .. Len(s) /\ \A i \in DOMAIN s : s[i] \in S
  OBVIOUS

LEMMA Concatenated ==
  ASSUME NEW S, NEW s \in Seq(S), NEW t \in Seq(S)
  PROVE  s \o t \in Seq(S) /\ Len(s \o t) = Len(s) + Len(t)
  OBVIOUS

\* What a key sends is a sequence of bytes; translated, it ends in no prefix, and
\* holds a press or a release of shift only if the key is shift.
LEMMA KeyBytes ==
  ASSUME NEW key \in {"letter", "shift", "arrow"}, NEW down \in BOOLEAN
  PROVE  /\ Bytes(key, down) \in Seq(Byte)
         /\ Bytes(key, down) # <<>>
         /\ Bit(config, 64) =>
              /\ Bytes(key, down)[Len(Bytes(key, down))] # 224
              /\ key = "shift" => Bytes(key, down) = <<IF down THEN 42 ELSE 170>>
              /\ key # "shift" => \A i \in DOMAIN Bytes(key, down) :
                                    ~Press(Bytes(key, down)[i]) /\ ~Release(Bytes(key, down)[i])
  <1> DEFINE b == Bytes(key, down)
  <1>1. CASE key = "letter"
    <2>1. CASE Bit(config, 64) /\ down
      <3>1. b = <<30>> BY <1>1, <2>1 DEF Bytes
      <3> HIDE DEF b
      <3>2. b \in Seq(Byte) /\ b # <<>> BY <3>1 DEF Byte
      <3>3. b[Len(b)] # 224 BY <3>1
      <3>4. \A i \in DOMAIN b : ~Press(b[i]) /\ ~Release(b[i]) BY <3>1, <2>1 DEF Press, Release
      <3> QED BY <1>1, <2>1, <3>2, <3>3, <3>4, ZenonT(60) DEF b
    <2>2. CASE Bit(config, 64) /\ ~down
      <3>1. b = <<158>> BY <1>1, <2>2 DEF Bytes
      <3> HIDE DEF b
      <3>2. b \in Seq(Byte) /\ b # <<>> BY <3>1 DEF Byte
      <3>3. b[Len(b)] # 224 BY <3>1
      <3>4. \A i \in DOMAIN b : ~Press(b[i]) /\ ~Release(b[i]) BY <3>1, <2>2 DEF Press, Release
      <3> QED BY <1>1, <2>2, <3>2, <3>3, <3>4 DEF b
    <2>3. CASE ~Bit(config, 64) /\ down
      <3>1. b = <<>> \o <<28>> BY <1>1, <2>3 DEF Bytes
      <3> HIDE DEF b
      <3>2. b \in Seq(Byte) /\ b # <<>> BY <3>1 DEF Byte
      <3> QED BY <2>3, <3>2, ZenonT(60) DEF b
    <2>4. CASE ~Bit(config, 64) /\ ~down
      <3>1. b = <<240>> \o <<28>> BY <1>1, <2>4 DEF Bytes
      <3> HIDE DEF b
      <3>2. b \in Seq(Byte) /\ b # <<>> BY <3>1 DEF Byte
      <3> QED BY <2>4, <3>2 DEF b
    <2> QED BY <2>1, <2>2, <2>3, <2>4
  <1>2. CASE key = "shift"
    <2>1. CASE Bit(config, 64) /\ down
      <3>1. b = <<42>> BY <1>2, <2>1 DEF Bytes
      <3> HIDE DEF b
      <3>2. b \in Seq(Byte) /\ b # <<>> BY <3>1 DEF Byte
      <3>3. b[Len(b)] # 224 BY <3>1
      <3>4. b = <<IF down THEN 42 ELSE 170>> BY <1>2, <2>1, <3>1
      <3> QED BY <1>2, <2>1, <3>2, <3>3, <3>4, ZenonT(60) DEF b
    <2>2. CASE Bit(config, 64) /\ ~down
      <3>1. b = <<170>> BY <1>2, <2>2 DEF Bytes
      <3> HIDE DEF b
      <3>2. b \in Seq(Byte) /\ b # <<>> BY <3>1 DEF Byte
      <3>3. b[Len(b)] # 224 BY <3>1
      <3>4. b = <<IF down THEN 42 ELSE 170>> BY <1>2, <2>2, <3>1
      <3> QED BY <1>2, <2>2, <3>2, <3>3, <3>4 DEF b
    <2>3. CASE ~Bit(config, 64) /\ down
      <3>1. b = <<>> \o <<18>> BY <1>2, <2>3 DEF Bytes
      <3> HIDE DEF b
      <3>2. b \in Seq(Byte) /\ b # <<>> BY <3>1 DEF Byte
      <3> QED BY <2>3, <3>2, ZenonT(60) DEF b
    <2>4. CASE ~Bit(config, 64) /\ ~down
      <3>1. b = <<240>> \o <<18>> BY <1>2, <2>4 DEF Bytes
      <3> HIDE DEF b
      <3>2. b \in Seq(Byte) /\ b # <<>> BY <3>1 DEF Byte
      <3> QED BY <2>4, <3>2 DEF b
    <2> QED BY <2>1, <2>2, <2>3, <2>4
  <1>3. CASE key = "arrow"
    <2>1. CASE Bit(config, 64) /\ down
      <3>1. b = <<224, 72>> BY <1>3, <2>1 DEF Bytes
      <3> HIDE DEF b
      <3>2. b \in Seq(Byte) /\ b # <<>> BY <3>1 DEF Byte
      <3>3. b[Len(b)] # 224 BY <3>1
      <3>4. \A i \in DOMAIN b : ~Press(b[i]) /\ ~Release(b[i]) BY <3>1, <2>1 DEF Press, Release
      <3> QED BY <1>3, <2>1, <3>2, <3>3, <3>4, ZenonT(60) DEF b
    <2>2. CASE Bit(config, 64) /\ ~down
      <3>1. b = <<224, 200>> BY <1>3, <2>2 DEF Bytes
      <3> HIDE DEF b
      <3>2. b \in Seq(Byte) /\ b # <<>> BY <3>1 DEF Byte
      <3>3. b[Len(b)] # 224 BY <3>1
      <3>4. \A i \in DOMAIN b : ~Press(b[i]) /\ ~Release(b[i]) BY <3>1, <2>2 DEF Press, Release
      <3> QED BY <1>3, <2>2, <3>2, <3>3, <3>4 DEF b
    <2>3. CASE ~Bit(config, 64) /\ down
      <3>1. b = <<>> \o <<117>> BY <1>3, <2>3 DEF Bytes
      <3> HIDE DEF b
      <3>2. b \in Seq(Byte) /\ b # <<>> BY <3>1 DEF Byte
      <3> QED BY <2>3, <3>2, ZenonT(60) DEF b
    <2>4. CASE ~Bit(config, 64) /\ ~down
      <3>1. b = <<240>> \o <<117>> BY <1>3, <2>4 DEF Bytes
      <3> HIDE DEF b
      <3>2. b \in Seq(Byte) /\ b # <<>> BY <3>1 DEF Byte
      <3> QED BY <2>4, <3>2 DEF b
    <2> QED BY <2>1, <2>2, <2>3, <2>4
  <1> QED BY <1>1, <1>2, <1>3

\* What arrives stands behind what waits.
LEMMA Arrived ==
  ASSUME out \in Seq(Entry), NEW src \in {"keyboard", "controller"},
         NEW bytes \in Seq(Byte), Arrive(src, bytes)
  PROVE  /\ out' \in Seq(Entry)
         /\ Len(out') = Len(out) + Len(bytes)
         /\ \A i \in DOMAIN out : i \in DOMAIN out' /\ out'[i] = out[i]
         /\ \A i \in DOMAIN bytes : /\ Len(out) + i \in DOMAIN out'
                                    /\ out'[Len(out) + i].byte = bytes[i]
                                    /\ out'[Len(out) + i].src = src
         /\ \A i \in DOMAIN out' : i \in DOMAIN out \/ i - Len(out) \in DOMAIN bytes
  <1> DEFINE new == [i \in DOMAIN bytes |-> [src |-> src, byte |-> bytes[i]]]
  <1>1. /\ new \in Seq(Entry) /\ Len(new) = Len(bytes) /\ DOMAIN new = DOMAIN bytes
        /\ \A i \in DOMAIN bytes : new[i].byte = bytes[i] /\ new[i].src = src
    <2>2. DOMAIN bytes = 1 .. Len(bytes) /\ Len(bytes) \in Nat
      BY Elements
    <2>1. \A i \in 1 .. Len(bytes) : bytes[i] \in Byte
      BY <2>2, Elements, ZenonT(60)
    <2>3. new \in [1 .. Len(bytes) -> Entry]
      BY <2>1, <2>2, ZenonT(60) DEF Entry
    <2> QED BY <2>2, <2>3
  <1>2. out' = out \o new
    BY DEF Arrive
  <1> HIDE DEF new
  <1>3. /\ out' \in Seq(Entry) /\ Len(out') = Len(out) + Len(bytes)
        /\ Len(out) \in Nat /\ Len(bytes) \in Nat
        /\ DOMAIN out' = 1 .. Len(out') /\ DOMAIN out = 1 .. Len(out)
        /\ DOMAIN bytes = 1 .. Len(bytes)
    <2>1. out' \in Seq(Entry) /\ Len(out') = Len(out) + Len(bytes)
      BY <1>1, <1>2, Concatenated
    <2>2. Len(bytes) \in Nat /\ DOMAIN bytes = 1 .. Len(bytes)
      BY Elements
    <2> QED BY <2>1, <2>2
  <1>4. \A i \in DOMAIN out : out'[i] = out[i]
    BY <1>1, <1>2, <1>3
  <1>5. ASSUME NEW i \in DOMAIN bytes PROVE out'[Len(out) + i] = new[i]
    <2>1. /\ Len(out) + i \in 1 .. Len(out) + Len(new) /\ ~(Len(out) + i <= Len(out))
          /\ (Len(out) + i) - Len(out) = i
      BY <1>1, <1>3
    <2> QED BY <1>1, <1>2, <2>1
  <1> QED BY <1>1, <1>3, <1>4, <1>5

\* Reading takes the first byte and moves the others up.
LEMMA DataRead ==
  ASSUME out \in Seq(Entry), out # <<>>, ReadData
  PROVE  /\ out' \in Seq(Entry) /\ Len(out') = Len(out) - 1 /\ Len(out) \in Nat
         /\ 1 \in DOMAIN out /\ Head(out) = out[1] /\ Head(out).byte \in Byte
         /\ \A i \in DOMAIN out' : i + 1 \in DOMAIN out /\ out'[i] = out[i + 1]
         /\ \A i \in DOMAIN out : i > 1 => i - 1 \in DOMAIN out' /\ out'[i - 1] = out[i]
  <1>1. out' = Tail(out)
    BY DEF ReadData
  <1>2. /\ Len(out) \in Nat \ {0} /\ Head(out) = out[1] /\ Head(out) \in Entry
        /\ Tail(out) \in Seq(Entry) /\ Len(Tail(out)) = Len(out) - 1
    OBVIOUS
  <1>3. /\ DOMAIN out = 1 .. Len(out) /\ DOMAIN out' = 1 .. Len(out) - 1
        /\ \A i \in 1 .. Len(out) - 1 : out'[i] = out[i + 1]
    BY <1>1, <1>2
  <1>4. \A i \in DOMAIN out : i > 1 => i - 1 \in 1 .. Len(out) - 1 /\ (i - 1) + 1 = i
    BY <1>2, <1>3
  <1>5. Head(out).byte \in Byte
    BY <1>2, ZenonT(60) DEF Entry
  <1>6. \A i \in DOMAIN out : i > 1 => out'[i - 1] = out[i]
    BY <1>3, <1>4
  <1> QED BY <1>1, <1>2, <1>3, <1>4, <1>5, <1>6

\* The interrupt controller sees no line but those of the timer and the keyboard.
LEMMA LinesLatched ==
  ASSUME latch \subseteq {0, 1}
  PROVE  /\ \A src, bytes : Arrive(src, bytes) => latch' \subseteq {0, 1}
         /\ ReadData => latch' \subseteq {0, 1}
  BY ZenonT(60) DEF Arrive, ReadData, Irq1

-----------------------------------------------------------------------------
(* The steps keep the types *)

\* graphics_putchar, run as a whole, leaves the cursor on the screen.
LEMMA PutCharStays ==
  ASSUME NEW c, PutChar(c), cursor_x \in Nat, cursor_y \in Nat
  PROVE  /\ cursor_x' \in Nat /\ cursor_x' < fb_width
         /\ cursor_y' \in Nat /\ cursor_y' < fb_height
  <1>1. cursor_x' \in Nat /\ cursor_x' < fb_width
    BY ConsoleAssumption DEF PutChar, Beyond
  <1>2. cursor_y' \in Nat /\ cursor_y' < fb_height
    BY ConsoleAssumption DEF PutChar, Beyond
  <1> QED BY <1>1, <1>2

LEMMA TypeStep ==
  ASSUME TypeOK, [Next]_vars
  PROVE  TypeOK'
  <1> USE DEF controller, pic, keys, handler, kmain, console, cursor, serial, kputchar
  <1>1. CASE PicRemap BY <1>1, BootPlaces DEF TypeOK, PicRemap, Booting
  <1>2. CASE IdtInit BY <1>2, BootPlaces DEF TypeOK, IdtInit, Booting
  <1>3. CASE AskConfig BY <1>3, BootPlaces, SMTT(60) DEF TypeOK, AskConfig, Booting
  <1>4. CASE ReadConfig
    <2>1. out' \in Seq(Entry) /\ Head(out).byte \in Byte /\ latch' \subseteq {0, 1}
      BY <1>4, DataRead, LinesLatched, SMTT(60) DEF TypeOK, ReadConfig
    <2>2. local' \in Byte
      BY <1>4, <2>1, NewConfigByte, ZenonT(60) DEF ReadConfig
    <2>3. boot' \in 1 .. 11
      BY <1>4, BootPlaces DEF TypeOK, ReadConfig, Booting
    <2>4. UNCHANGED <<config, events, hpc, sc, htext, cursor_x, cursor_y, reg, lost, kpc>>
      BY <1>4 DEF ReadConfig
    <2> QED BY <2>1, <2>2, <2>3, <2>4, SMTT(60) DEF TypeOK
  <1>5. CASE WriteConfig
    <2>1. latch' \subseteq {0, 1}
      BY <1>5, ZenonT(60) DEF TypeOK, WriteConfig, Irq1
    <2>2. boot' \in 1 .. 11
      BY <1>5, BootPlaces DEF TypeOK, WriteConfig, Booting
    <2> QED BY <1>5, <2>1, <2>2 DEF TypeOK, WriteConfig
  <1>6. CASE EnableScanning BY <1>6, BootPlaces DEF TypeOK, EnableScanning, Booting
  <1>7. CASE ReadAck
    <2>1. out' \in Seq(Entry) /\ latch' \subseteq {0, 1}
      BY <1>7, DataRead, LinesLatched, ZenonT(60) DEF TypeOK, ReadAck
    <2> QED BY <1>7, <2>1, BootPlaces DEF TypeOK, ReadAck, Booting
  <1>8. CASE EnableIrq BY <1>8, BootPlaces DEF TypeOK, EnableIrq, Booting
  <1>9. CASE Sti BY <1>9, BootPlaces DEF TypeOK, Sti, Booting
  <1>10. CASE \E n \in Numbers : Klog(n) BY <1>10, BootPlaces DEF TypeOK, Klog, Booting, Kpcs
  <1>11. CASE KernelPrints
    <2>1. CASE Draw
      <3>1. cursor_x' \in Nat
        BY <2>1 DEF Draw, TypeOK
      <3>2. kpc' \in Kpcs
        BY <2>1 DEF Draw, Step, Kpcs
      <3> QED BY <1>11, <2>1, <3>1, <3>2, ZenonT(60) DEF TypeOK, KernelPrints, Draw
    <2> USE <1>11, ConsoleAssumption DEF TypeOK, KernelPrints, Step, Kpcs
    <2>2. CASE LoadX BY <2>2 DEF LoadX
    <2>3. CASE StoreX BY <2>3 DEF StoreX
    <2>4. CASE TestX BY <2>4 DEF TestX
    <2>5. CASE CarriageReturn BY <2>5 DEF CarriageReturn
    <2>6. CASE LoadY BY <2>6 DEF LoadY
    <2>7. CASE StoreY BY <2>7 DEF StoreY
    <2>8. CASE TestY BY <2>8 DEF TestY
    <2>9. CASE Top BY <2>9 DEF Top
    <2>10. CASE PollSerial BY <2>10 DEF PollSerial
    <2>11. CASE SendChar BY <2>11 DEF SendChar, Send
    <2> QED BY <2>1, <2>2, <2>3, <2>4, <2>5, <2>6, <2>7, <2>8, <2>9, <2>10, <2>11, ZenonT(60)
          DEF Printing
  <1>12. CASE HandlerReads
    <2>1. CASE out = <<>>
      <3>1. UNCHANGED <<out, latch, sc, htext>> /\ hpc' = "exit"
        BY <1>12, <2>1, SMTT(60) DEF HandlerReads
      <3> QED BY <1>12, <3>1 DEF TypeOK, HandlerReads
    <2>2. CASE out # <<>>
      <3>1. out' \in Seq(Entry) /\ Head(out).byte \in Byte /\ latch' \subseteq {0, 1}
        BY <1>12, <2>2, DataRead, LinesLatched DEF TypeOK, HandlerReads
      <3>2. <<LETTER, NEWLINE>> \in Seq(Int)
        BY DEF LETTER, NEWLINE
      <3> QED BY <1>12, <2>2, <3>1, <3>2, ZenonT(60) DEF TypeOK, HandlerReads
    <2> QED BY <2>1, <2>2
  <1>13. CASE HandlerPrints
    <2>1. htext' \in Seq(Int)
      BY <1>13 DEF TypeOK, HandlerPrints
    <2>2. cursor_x' \in Nat
      BY <1>13, PutCharStays, ZenonT(60) DEF TypeOK, HandlerPrints
    <2>3. cursor_y' \in Nat
      BY <1>13, PutCharStays, ZenonT(60) DEF TypeOK, HandlerPrints
    <2>4. lost' \in Nat
      BY <1>13, ZenonT(60) DEF TypeOK, HandlerPrints, Send
    <2> QED BY <1>13, <2>1, <2>2, <2>3, <2>4 DEF TypeOK, HandlerPrints, Send
  <1>14. CASE Decode
    <2>1. htext' \in Seq(Int)
      BY <1>14 DEF Decode, LETTER
    <2> QED BY <1>14, <2>1 DEF TypeOK, Decode, Byte
  <1>15. CASE HandlerReturns BY <1>15, ZenonT(60) DEF TypeOK, HandlerReturns
  <1>16. CASE Interrupt BY <1>16 DEF TypeOK, Interrupt
  <1>17. CASE SerialMoves BY <1>17 DEF TypeOK, SerialMoves, SerialSends
  <1>18. CASE AnswerConfig
    <2>1. <<config>> \in Seq(Byte)
      BY DEF TypeOK
    <2>2. out' \in Seq(Entry) /\ latch' \subseteq {0, 1}
      BY <1>18, <2>1, Arrived, LinesLatched, ZenonT(60) DEF TypeOK, AnswerConfig
    <2> QED BY <1>18, <2>2 DEF TypeOK, AnswerConfig
  <1>19. CASE Acknowledge
    <2>1. <<250>> \in Seq(Byte)
      BY DEF Byte
    <2>2. out' \in Seq(Entry)
      BY <1>19, <2>1, Arrived, ZenonT(60) DEF TypeOK, Acknowledge
    <2>3. latch' \subseteq {0, 1}
      BY <1>19, LinesLatched DEF TypeOK, Acknowledge
    <2> QED BY <1>19, <2>2, <2>3 DEF TypeOK, Acknowledge
  <1>20. ASSUME NEW k \in Keys, KeyEvent(k) PROVE TypeOK'
    <2>1. Bytes(k, k \notin held) \in Seq(Byte)
      BY KeyBytes, KeyboardAssumption, ZenonT(60)
    <2>2. out' \in Seq(Entry) /\ latch' \subseteq {0, 1}
      BY <1>20, <2>1, Arrived, LinesLatched DEF TypeOK, KeyEvent
    <2> QED BY <1>20, <2>2 DEF TypeOK, KeyEvent
  <1>21. CASE UNCHANGED vars BY <1>21, ZenonT(60) DEF TypeOK, vars
  <1> QED BY <1>1, <1>2, <1>3, <1>4, <1>5, <1>6, <1>7, <1>8, <1>9, <1>10, <1>11, <1>12, <1>13,
             <1>14, <1>15, <1>16, <1>17, <1>18, <1>19, <1>20, <1>21, ZenonT(60) DEF Next, Kernel, Hlt

-----------------------------------------------------------------------------
(* The steps keep the invariant *)

LEMMA GatedStep ==
  ASSUME TypeOK, Gated, [Next]_vars
  PROVE  Gated'
  <1> USE DEF controller, pic, keys, handler, kmain, console, cursor, serial, kputchar
  <1>1. CASE PicRemap BY <1>1, BootPlaces DEF Gated, Booting, PicRemap
  <1>2. CASE IdtInit BY <1>2, BootPlaces DEF Gated, Booting, IdtInit
  <1>3. CASE AskConfig BY <1>3, BootPlaces DEF Gated, Booting, AskConfig
  <1>4. CASE ReadConfig BY <1>4, BootPlaces DEF Gated, Booting, ReadConfig
  <1>5. CASE WriteConfig BY <1>5, BootPlaces DEF Gated, Booting, WriteConfig
  <1>6. CASE EnableScanning BY <1>6, BootPlaces DEF Gated, Booting, EnableScanning
  <1>7. CASE ReadAck BY <1>7, BootPlaces DEF Gated, Booting, ReadAck
  <1>8. CASE EnableIrq BY <1>8, BootPlaces DEF Gated, Booting, EnableIrq
  <1>9. CASE Sti BY <1>9, BootPlaces DEF Gated, Booting, Sti
  <1>10. CASE \E n \in Numbers : Klog(n) BY <1>10, BootPlaces DEF Gated, Booting, Klog
  <1>11. CASE KernelPrints BY <1>11, ZenonT(60) DEF Gated, KernelPrints
  <1>12. CASE HandlerReads BY <1>12 DEF Gated, HandlerReads
  <1>13. CASE HandlerPrints BY <1>13 DEF Gated, HandlerPrints
  <1>14. CASE Decode BY <1>14 DEF Gated, Decode
  <1>15. CASE HandlerReturns BY <1>15, ZenonT(60) DEF Gated, HandlerReturns
  <1>16. CASE Interrupt
    <2>1. PICK i \in latch \ mask : hpc' = IF base + i \in gates THEN "entry" ELSE "fault"
      BY <1>16, ZenonT(60) DEF Interrupt
    <2>2. i = 1 /\ base = 32 /\ 33 \in gates /\ boot > 9
      BY <1>16, <2>1 DEF Gated, TypeOK, Interrupt
    <2> QED BY <1>16, <2>1, <2>2 DEF Gated, TypeOK, Interrupt
  <1>17. CASE SerialMoves BY <1>17, ZenonT(60) DEF Gated, SerialMoves
  <1>18. CASE AnswerConfig BY <1>18, ZenonT(60) DEF Gated, Arrive, AnswerConfig
  <1>19. CASE Acknowledge BY <1>19, ZenonT(60) DEF Gated, Arrive, Acknowledge
  <1>20. ASSUME NEW k \in Keys, KeyEvent(k) PROVE Gated' BY <1>20, ZenonT(60) DEF Gated, Arrive, KeyEvent
  <1>21. CASE UNCHANGED vars BY <1>21 DEF Gated, vars
  <1> QED BY <1>1, <1>2, <1>3, <1>4, <1>5, <1>6, <1>7, <1>8, <1>9, <1>10, <1>11, <1>12,
             <1>13, <1>14, <1>15, <1>16, <1>17, <1>18, <1>19, <1>20, <1>21, ZenonT(60)
          DEF Next, Kernel, Hlt

LEMMA PlacedStep ==
  ASSUME TypeOK, Placed, [Next]_vars
  PROVE  Placed'
  <1> USE DEF controller, pic, keys, handler, kmain, console, cursor, serial, kputchar
  <1>1. CASE PicRemap BY <1>1 DEF Placed, Booting, PicRemap
  <1>2. CASE IdtInit BY <1>2 DEF Placed, Booting, IdtInit
  <1>3. CASE AskConfig BY <1>3 DEF Placed, Booting, AskConfig
  <1>4. CASE ReadConfig BY <1>4 DEF Placed, Booting, ReadConfig
  <1>5. CASE WriteConfig BY <1>5 DEF Placed, Booting, WriteConfig
  <1>6. CASE EnableScanning BY <1>6 DEF Placed, Booting, EnableScanning
  <1>7. CASE ReadAck BY <1>7 DEF Placed, Booting, ReadAck
  <1>8. CASE EnableIrq BY <1>8 DEF Placed, Booting, EnableIrq
  <1>9. CASE Sti BY <1>9 DEF Placed, Booting, Sti
  <1>10. CASE \E n \in Numbers : Klog(n) BY <1>10, ZenonT(60) DEF Placed, Booting, Klog
  <1>11. CASE KernelPrints
    <2> USE <1>11, ConsoleAssumption DEF KernelPrints, Step, TypeOK, Placed
    <2>1. CASE Draw BY <2>1 DEF Draw
    <2>2. CASE LoadX BY <2>2, ZenonT(60) DEF LoadX
    <2>3. CASE StoreX BY <2>3, ZenonT(60) DEF StoreX
    <2>4. CASE TestX BY <2>4 DEF TestX, Beyond
    <2>5. CASE CarriageReturn BY <2>5 DEF CarriageReturn
    <2>6. CASE LoadY BY <2>6, ZenonT(60) DEF LoadY
    <2>7. CASE StoreY BY <2>7, ZenonT(60) DEF StoreY
    <2>8. CASE TestY BY <2>8 DEF TestY, Beyond
    <2>9. CASE Top BY <2>9 DEF Top
    <2>10. CASE PollSerial BY <2>10, ZenonT(60) DEF PollSerial
    <2>11. CASE SendChar BY <2>11 DEF SendChar
    <2> QED BY <2>1, <2>2, <2>3, <2>4, <2>5, <2>6, <2>7, <2>8, <2>9, <2>10, <2>11, ZenonT(60) DEF Printing
  <1>12. CASE HandlerReads BY <1>12 DEF Placed, HandlerReads
  <1>13. CASE HandlerPrints
    <2>1. cursor_x' < fb_width
      BY <1>13, PutCharStays, ZenonT(60) DEF TypeOK, HandlerPrints
    <2>2. cursor_y' < fb_height
      BY <1>13, PutCharStays, ZenonT(60) DEF TypeOK, HandlerPrints
    <2> QED BY <2>1, <2>2, ZenonT(60) DEF Placed
  <1>14. CASE Decode BY <1>14 DEF Placed, Decode
  <1>15. CASE HandlerReturns BY <1>15 DEF Placed, HandlerReturns
  <1>16. CASE Interrupt BY <1>16, ZenonT(60) DEF Placed, Interrupt
  <1>17. CASE SerialMoves BY <1>17 DEF Placed, SerialMoves, SerialSends
  <1>18. CASE AnswerConfig BY <1>18 DEF Placed, AnswerConfig
  <1>19. CASE Acknowledge BY <1>19, ZenonT(60) DEF Placed, Acknowledge
  <1>20. ASSUME NEW k \in Keys, KeyEvent(k) PROVE Placed' BY <1>20, ZenonT(60) DEF Placed, KeyEvent
  <1>21. CASE UNCHANGED vars BY <1>21, ZenonT(60) DEF Placed, vars
  <1> QED BY <1>1, <1>2, <1>3, <1>4, <1>5, <1>6, <1>7, <1>8, <1>9, <1>10, <1>11, <1>12,
             <1>13, <1>14, <1>15, <1>16, <1>17, <1>18, <1>19, <1>20, <1>21, ZenonT(60)
          DEF Next, Kernel, Hlt

LEMMA CountedStep ==
  ASSUME TypeOK, Counted, [Next]_vars
  PROVE  Counted'
  <1> USE DEF controller, pic, keys, handler, kmain, console, cursor, serial, kputchar
  <1>1. CASE PicRemap BY <1>1, ZenonT(60) DEF Counted, Booting, PicRemap
  <1>2. CASE IdtInit BY <1>2, ZenonT(60) DEF Counted, Booting, IdtInit
  <1>3. CASE AskConfig BY <1>3, ZenonT(60) DEF Counted, Booting, AskConfig
  <1>4. CASE ReadConfig BY <1>4, ZenonT(60) DEF Counted, Booting, ReadConfig
  <1>5. CASE WriteConfig BY <1>5 DEF Counted, Booting, WriteConfig
  <1>6. CASE EnableScanning BY <1>6, ZenonT(60) DEF Counted, Booting, EnableScanning
  <1>7. CASE ReadAck BY <1>7, ZenonT(60) DEF Counted, Booting, ReadAck
  <1>8. CASE EnableIrq BY <1>8, ZenonT(60) DEF Counted, Booting, EnableIrq
  <1>9. CASE Sti BY <1>9, ZenonT(60) DEF Counted, Booting, Sti
  <1>10. CASE \E n \in Numbers : Klog(n) BY <1>10, ZenonT(60) DEF Counted, Booting, Klog
  <1>11. CASE KernelPrints
    <2> USE <1>11 DEF KernelPrints, Step, TypeOK, Counted
    <2>1. CASE Draw BY <2>1, ZenonT(60) DEF Draw
    <2>2. CASE LoadX BY <2>2, ZenonT(60) DEF LoadX
    <2>3. CASE StoreX BY <2>3, ZenonT(60) DEF StoreX
    <2>4. CASE TestX BY <2>4, ZenonT(60) DEF TestX
    <2>5. CASE CarriageReturn BY <2>5, ZenonT(60) DEF CarriageReturn
    <2>6. CASE LoadY BY <2>6, ZenonT(60) DEF LoadY
    <2>7. CASE StoreY BY <2>7, ZenonT(60) DEF StoreY
    <2>8. CASE TestY BY <2>8, ZenonT(60) DEF TestY
    <2>9. CASE Top BY <2>9, ZenonT(60) DEF Top
    <2>10. CASE PollSerial BY <2>10, ZenonT(60) DEF PollSerial
    <2>11. CASE SendChar BY <2>11 DEF SendChar, Send
    <2> QED BY <2>1, <2>2, <2>3, <2>4, <2>5, <2>6, <2>7, <2>8, <2>9, <2>10, <2>11, ZenonT(60) DEF Printing
  <1>12. CASE HandlerReads BY <1>12, ZenonT(60) DEF Counted, HandlerReads
  <1>13. CASE HandlerPrints BY <1>13, ZenonT(60) DEF TypeOK, Counted, HandlerPrints, Send
  <1>14. CASE Decode BY <1>14, ZenonT(60) DEF Counted, Decode
  <1>15. CASE HandlerReturns BY <1>15, ZenonT(60) DEF Counted, HandlerReturns
  <1>16. CASE Interrupt BY <1>16 DEF Counted, Interrupt
  <1>17. CASE SerialMoves BY <1>17, ZenonT(60) DEF Counted, SerialMoves, SerialSends
  <1>18. CASE AnswerConfig BY <1>18, ZenonT(60) DEF Counted, AnswerConfig
  <1>19. CASE Acknowledge BY <1>19, ZenonT(60) DEF Counted, Acknowledge
  <1>20. ASSUME NEW k \in Keys, KeyEvent(k) PROVE Counted' BY <1>20, ZenonT(60) DEF Counted, KeyEvent
  <1>21. CASE UNCHANGED vars BY <1>21, ZenonT(60) DEF Counted, vars
  <1> QED BY <1>1, <1>2, <1>3, <1>4, <1>5, <1>6, <1>7, <1>8, <1>9, <1>10, <1>11, <1>12,
             <1>13, <1>14, <1>15, <1>16, <1>17, <1>18, <1>19, <1>20, <1>21, ZenonT(60)
          DEF Next, Kernel, Hlt


\* Only the controller's answer has to be a configuration.
LEMMA ArriveTranslating ==
  ASSUME TypeOK, Translating, NEW src \in {"keyboard", "controller"},
         NEW bytes \in Seq(Byte), Arrive(src, bytes),
         src = "controller" => bytes = <<config>>,
         UNCHANGED <<config, boot, local, mistaken>>
  PROVE  Translating'
  <1>2. /\ out' \in Seq(Entry) /\ Len(out) \in Nat
        /\ \A i \in DOMAIN out : out'[i] = out[i]
        /\ \A i \in DOMAIN bytes :
             out'[Len(out) + i].byte = bytes[i] /\ out'[Len(out) + i].src = src
        /\ \A i \in DOMAIN out' : i \in DOMAIN out \/ i - Len(out) \in DOMAIN bytes
    BY Arrived, SMTT(60) DEF TypeOK
  <1>1. ASSUME NEW i \in DOMAIN out', out'[i].src = "controller", ~mistaken
        PROVE  out'[i].byte \in 64 .. 127
    <2>1. CASE i \in DOMAIN out
      BY <1>1, <1>2, <2>1, ZenonT(60) DEF Translating
    <2>2. CASE i - Len(out) \in DOMAIN bytes
      <3>1. PICK j \in DOMAIN bytes : j = i - Len(out)
        BY <2>2, ZenonT(60)
      <3>2. Len(out) + j = i
        BY <1>1, <1>2, <3>1
      <3>3. out'[i].byte = bytes[j] /\ out'[i].src = src
        BY <1>2, <3>2, ZenonT(60)
      <3>4. bytes = <<config>>
        BY <1>1, <3>3, ZenonT(60)
      <3>5. bytes[j] = config
        BY <3>4
      <3> QED BY <1>1, <3>3, <3>5 DEF Translating
    <2> QED BY <1>1, <1>2, <2>1, <2>2
  <1> QED BY <1>1, ZenonT(60) DEF Translating

\* A step of kmain that leaves the controller's bytes and ps2_init's variable alone.
LEMMA BootTranslating ==
  ASSUME TypeOK, Translating, boot' = boot + 1, boot # 4, boot # 5,
         UNCHANGED <<out, config, local, mistaken>>
  PROVE  Translating'
  <1>1. /\ boot' <= 4 => boot <= 4
        /\ boot' > 4 => boot > 4
        /\ boot' > 5 => boot > 5
    <2>1. boot \in 1 .. 11
      BY DEF TypeOK
    <2> QED BY <2>1
  <1> QED BY <1>1, ZenonT(60) DEF Translating

LEMMA TranslatingStep ==
  ASSUME TypeOK, Translating, [Next]_vars
  PROVE  Translating'
  <1> USE DEF controller, pic, keys, handler, kmain, console, cursor, serial, kputchar
  <1>1. CASE PicRemap
    <2>1. boot = 1 /\ boot' = boot + 1 /\ UNCHANGED <<out, config, local, mistaken>>
      BY <1>1, BootPlaces, ZenonT(60) DEF Booting, PicRemap
    <2> QED BY <2>1, BootTranslating
  <1>2. CASE IdtInit
    <2>1. boot = 2 /\ boot' = boot + 1 /\ UNCHANGED <<out, config, local, mistaken>>
      BY <1>2, BootPlaces, ZenonT(60) DEF Booting, IdtInit
    <2> QED BY <2>1, BootTranslating
  <1>3. CASE AskConfig
    <2>1. boot = 3 /\ boot' = boot + 1 /\ UNCHANGED <<out, config, local, mistaken>>
      BY <1>3, BootPlaces, ZenonT(60) DEF Booting, AskConfig
    <2> QED BY <2>1, BootTranslating
  <1>4. CASE ReadConfig
    <2>1. /\ boot = 4 /\ boot' = 5 /\ ~mistaken /\ out # <<>> /\ ReadData /\ config' = config
          /\ local' = NewConfig(Head(out).byte) /\ mistaken' = (Head(out).src # "controller")
      BY <1>4, BootPlaces, SMTT(60) DEF Translating, Booting, ReadConfig
    <2>2. /\ \A i \in DOMAIN out' : i + 1 \in DOMAIN out /\ out'[i] = out[i + 1]
          /\ 1 \in DOMAIN out /\ Head(out) = out[1]
      BY <2>1, DataRead, SMTT(60) DEF TypeOK
    <2>3. ASSUME ~mistaken' PROVE local' \in 64 .. 127 /\ Bit(local', 1)
      <3>1. Head(out).byte \in 64 .. 127
        BY <2>1, <2>2, <2>3, ZenonT(60) DEF Translating
      <3> QED BY <2>1, <3>1, NewConfigTranslates, ZenonT(60)
    <2>4. \A i \in DOMAIN out' : out'[i].src = "controller" => out'[i].byte \in 64 .. 127
      BY <2>1, <2>2, ZenonT(60) DEF Translating
    <2> QED BY <2>1, <2>3, <2>4, SMTT(60) DEF Translating
  <1>5. CASE WriteConfig BY <1>5, BootPlaces DEF Translating, Booting, WriteConfig
  <1>6. CASE EnableScanning
    <2>1. boot = 6 /\ boot' = boot + 1 /\ UNCHANGED <<out, config, local, mistaken>>
      BY <1>6, BootPlaces, ZenonT(60) DEF Booting, EnableScanning
    <2> QED BY <2>1, BootTranslating
  <1>7. CASE ReadAck
    <2>1. CASE out = <<>> BY <1>7, <2>1, BootPlaces, SMTT(60) DEF Translating, Booting, ReadAck
    <2>2. CASE out # <<>>
      <3>1. \A i \in DOMAIN out' : i + 1 \in DOMAIN out /\ out'[i] = out[i + 1]
        BY <1>7, <2>2, DataRead, ZenonT(60) DEF ReadAck, TypeOK
      <3>2. boot = 7 /\ boot' = 8 /\ UNCHANGED <<config, local, mistaken>>
        BY <1>7, BootPlaces, SMTT(60) DEF Booting, ReadAck
      <3> QED BY <3>1, <3>2, SMTT(60) DEF Translating
    <2> QED BY <2>1, <2>2, ZenonT(60)
  <1>8. CASE EnableIrq
    <2>1. boot = 8 /\ boot' = boot + 1 /\ UNCHANGED <<out, config, local, mistaken>>
      BY <1>8, BootPlaces, ZenonT(60) DEF Booting, EnableIrq
    <2> QED BY <2>1, BootTranslating
  <1>9. CASE Sti
    <2>1. boot = 9 /\ boot' = boot + 1 /\ UNCHANGED <<out, config, local, mistaken>>
      BY <1>9, BootPlaces, ZenonT(60) DEF Booting, Sti
    <2> QED BY <2>1, BootTranslating
  <1>10. CASE \E n \in Numbers : Klog(n)
    <2>1. boot = 10 /\ boot' = boot + 1 /\ UNCHANGED <<out, config, local, mistaken>>
      BY <1>10, BootPlaces, ZenonT(60) DEF Booting, Klog
    <2> QED BY <2>1, BootTranslating
  <1>11. CASE KernelPrints BY <1>11, ZenonT(60) DEF Translating, KernelPrints
  <1>12. CASE HandlerReads
    <2>1. CASE out = <<>> BY <1>12, <2>1, SMTT(60) DEF Translating, HandlerReads
    <2>2. CASE out # <<>>
      <3>1. \A i \in DOMAIN out' : i + 1 \in DOMAIN out /\ out'[i] = out[i + 1]
        BY <1>12, <2>2, DataRead, ZenonT(60) DEF HandlerReads, TypeOK
      <3> QED BY <1>12, <3>1, ZenonT(60) DEF Translating, HandlerReads
    <2> QED BY <2>1, <2>2, ZenonT(60)
  <1>13. CASE HandlerPrints BY <1>13, ZenonT(60) DEF Translating, HandlerPrints
  <1>14. CASE Decode BY <1>14, ZenonT(60) DEF Translating, Decode
  <1>15. CASE HandlerReturns BY <1>15, ZenonT(60) DEF Translating, HandlerReturns
  <1>16. CASE Interrupt BY <1>16, ZenonT(60) DEF Translating, Interrupt
  <1>17. CASE SerialMoves BY <1>17, SMTT(60) DEF Translating, SerialMoves, SerialSends
  <1>18. CASE AnswerConfig
    <2>1. <<config>> \in Seq(Byte)
      BY DEF TypeOK
    <2>2. Arrive("controller", <<config>>) /\ UNCHANGED <<config, boot, local, mistaken>>
      BY <1>18 DEF AnswerConfig
    <2> HIDE DEF AnswerConfig
    <2> QED BY <2>1, <2>2, ArriveTranslating, ZenonT(60) DEF TypeOK
  <1>19. CASE Acknowledge
    <2>1. <<250>> \in Seq(Byte)
      BY DEF Byte
    <2>2. Arrive("keyboard", <<250>>) /\ UNCHANGED <<config, boot, local, mistaken>>
      BY <1>19 DEF Acknowledge
    <2> HIDE DEF Acknowledge
    <2> QED BY <2>1, <2>2, ArriveTranslating, ZenonT(60) DEF TypeOK
  <1>20. ASSUME NEW k \in Keys, KeyEvent(k) PROVE Translating'
    <2>1. Bytes(k, k \notin held) \in Seq(Byte)
      BY KeyBytes, KeyboardAssumption, ZenonT(60)
    <2>2. Arrive("keyboard", Bytes(k, k \notin held)) /\ UNCHANGED <<config, boot, local, mistaken>>
      BY <1>20 DEF KeyEvent
    <2> HIDE DEF KeyEvent
    <2> QED BY <2>1, <2>2, ArriveTranslating DEF TypeOK
  <1>21. CASE UNCHANGED vars BY <1>21 DEF Translating, vars
  <1> QED BY <1>1, <1>2, <1>3, <1>4, <1>5, <1>6, <1>7, <1>8, <1>9, <1>10, <1>11, <1>12,
             <1>13, <1>14, <1>15, <1>16, <1>17, <1>18, <1>19, <1>20, <1>21, ZenonT(60)
          DEF Next, Kernel, Hlt


\* A byte below 0x80 that is shift's without bit 7 presses it.
LEMMA ShiftByte ==
  ASSUME NEW b \in Byte, b % 128 \in {42, 54}, b < 128 PROVE Press(b)
  BY DEF Press, Byte

LEMMA ConfigByte == ASSUME NEW c \in 64 .. 127 PROVE c # 224 /\ ~Press(c)
  BY DEF Press

LEMMA OneByte ==
  ASSUME NEW a \in Byte
  PROVE  \E b \in Seq(Byte) :
           b = <<a>> /\ b # <<>> /\ b[Len(b)] = a /\ \A i \in DOMAIN b : b[i] = a
  <1>1. <<a>> \in Seq(Byte) /\ <<a>> # <<>> /\ Len(<<a>>) = 1 /\ DOMAIN <<a>> = {1}
    OBVIOUS
  <1>2. <<a>>[Len(<<a>>)] = a /\ \A i \in DOMAIN <<a>> : <<a>>[i] = a
    BY <1>1
  <1> QED BY <1>1, <1>2, ZenonT(60)

\* Bytes that arrive end in no prefix, and press shift only while it is held.
LEMMA ArriveReleasing ==
  ASSUME TypeOK, Releasing, NEW src \in {"keyboard", "controller"},
         NEW bytes \in Seq(Byte), bytes # <<>>, Arrive(src, bytes),
         ~mistaken => bytes[Len(bytes)] # 224,
         ~mistaken /\ "shift" \notin held' =>
           \/ Release(bytes[Len(bytes)])
           \/ "shift" \notin held /\ \A i \in DOMAIN bytes : ~Press(bytes[i]),
         UNCHANGED <<boot, mistaken, shift_down, extended, hpc, sc>>
  PROVE  Releasing'
  <1>1. /\ out' \in Seq(Entry) /\ Len(out) \in Nat /\ DOMAIN out = 1 .. Len(out)
        /\ Len(out') = Len(out) + Len(bytes) /\ DOMAIN out' = 1 .. Len(out')
        /\ \A i \in DOMAIN out : i \in DOMAIN out' /\ out'[i] = out[i]
        /\ \A i \in DOMAIN bytes : /\ Len(out) + i \in DOMAIN out'
                                   /\ out'[Len(out) + i].byte = bytes[i]
        /\ \A i \in DOMAIN out' : i \in DOMAIN out \/ i - Len(out) \in DOMAIN bytes
    BY Arrived DEF TypeOK
  <1>2. Len(bytes) \in DOMAIN bytes /\ Len(bytes) \in Nat
    BY SMTT(60)
  <1>3. Len(out') \in DOMAIN out' /\ out'[Len(out')].byte = bytes[Len(bytes)]
    BY <1>1, <1>2
  <1>4. (boot <= 9 => ~shift_down /\ ~extended)'
    BY ZenonT(60) DEF Releasing
  <1>5. ASSUME ~mistaken' PROVE out'[Len(out')].byte # 224 /\ out' # <<>>
    BY <1>1, <1>3, <1>5
  <1>6. ASSUME ~mistaken', "shift" \notin held'
        PROVE  /\ WillBeDown' => \E j \in DOMAIN out' : Release(out'[j].byte)
               /\ \A i \in DOMAIN out' : Press(out'[i].byte) =>
                    \E j \in DOMAIN out' : j > i /\ Release(out'[j].byte)
    <2>1. CASE Release(bytes[Len(bytes)])
      <3>1. \A i \in DOMAIN out' : Press(out'[i].byte) => Len(out') > i
        BY <1>1, <1>3, <2>1 DEF Press, Release
      <3> QED BY <1>3, <2>1, <3>1, ZenonT(60)
    <2>2. CASE "shift" \notin held /\ \A i \in DOMAIN bytes : ~Press(bytes[i])
      <3>1. /\ WillBeDown => \E j \in DOMAIN out : Release(out[j].byte)
            /\ \A i \in DOMAIN out : Press(out[i].byte) =>
                 \E j \in DOMAIN out : j > i /\ Release(out[j].byte)
        BY <1>6, <2>2, ZenonT(60) DEF Releasing
      <3>2. WillBeDown' = WillBeDown
        BY ZenonT(60) DEF WillBeDown
      <3>3. ASSUME NEW i \in DOMAIN out', Press(out'[i].byte) PROVE i \in DOMAIN out
        <4>1. ASSUME i - Len(out) \in DOMAIN bytes PROVE FALSE
          <5>1. PICK j \in DOMAIN bytes : j = i - Len(out)
            BY <4>1, ZenonT(60)
          <5>2. Len(out) + j = i
            BY <1>1, <3>3, <5>1, SMTT(60)
          <5> QED BY <1>1, <2>2, <3>3, <5>1, <5>2
        <4> QED BY <1>1, <3>3, <4>1, ZenonT(60)
      <3>4. WillBeDown' => \E j \in DOMAIN out' : Release(out'[j].byte)
        BY <1>1, <3>1, <3>2, ZenonT(60)
      <3>5. ASSUME NEW i \in DOMAIN out', Press(out'[i].byte)
            PROVE  \E j \in DOMAIN out' : j > i /\ Release(out'[j].byte)
        <4>1. i \in DOMAIN out /\ Press(out[i].byte)
          BY <1>1, <3>3, <3>5
        <4> QED BY <1>1, <3>1, <4>1, ZenonT(60)
      <3> QED BY <3>4, <3>5, ZenonT(60)
    <2> QED BY <1>6, <2>1, <2>2, ZenonT(60)
  <1> QED BY <1>4, <1>5, <1>6 DEF Releasing

\* Reading before the handler is enabled: what is left stays in order.
LEMMA ReadReleasing ==
  ASSUME TypeOK, out # <<>>, ReadData, ~mistaken, boot <= 8, boot' = boot + 1, hpc = "none",
         Releasing, UNCHANGED <<shift_down, extended, hpc, sc, held>>
  PROVE  Releasing'
  <1>1. /\ out' \in Seq(Entry) /\ Len(out') = Len(out) - 1 /\ Len(out) \in Nat
        /\ DOMAIN out = 1 .. Len(out) /\ DOMAIN out' = 1 .. Len(out')
        /\ \A i \in DOMAIN out' : i + 1 \in DOMAIN out /\ out'[i] = out[i + 1]
        /\ \A i \in DOMAIN out : i > 1 => i - 1 \in DOMAIN out' /\ out'[i - 1] = out[i]
    BY DataRead DEF TypeOK
  <1>2. ~shift_down' /\ ~extended' /\ hpc' = "none"
    BY DEF Releasing, TypeOK
  <1>3. out' # <<>> => out'[Len(out')].byte # 224
    <2>1. ASSUME out' # <<>> PROVE Len(out') \in DOMAIN out' /\ Len(out') + 1 = Len(out)
      BY <1>1, <2>1
    <2> QED BY <1>1, <2>1 DEF Releasing
  <1>4. ASSUME "shift" \notin held', NEW i \in DOMAIN out', Press(out'[i].byte)
        PROVE  \E j \in DOMAIN out' : j > i /\ Release(out'[j].byte)
    <2>1. i + 1 \in DOMAIN out /\ Press(out[i + 1].byte)
      BY <1>1, <1>4, ZenonT(60)
    <2>2. PICK j \in DOMAIN out : j > i + 1 /\ Release(out[j].byte)
      BY <1>4, <2>1, ZenonT(60) DEF Releasing
    <2>3. j - 1 \in DOMAIN out' /\ j - 1 > i /\ Release(out'[j - 1].byte)
      BY <1>1, <2>1, <2>2
    <2> QED BY <2>3, ZenonT(60)
  <1>5. ~WillBeDown'
    BY <1>2 DEF WillBeDown
  <1> QED BY <1>2, <1>3, <1>4, <1>5, ZenonT(60) DEF Releasing

\* A step of kmain that leaves the bytes, the shift and the handler alone.
LEMMA BootReleasing ==
  ASSUME TypeOK, Releasing, boot' = boot + 1,
         UNCHANGED <<out, held, mistaken, shift_down, extended, hpc, sc>>
  PROVE  Releasing'
  <1>1. boot' <= 9 => boot <= 9
    <2>1. boot \in 1 .. 11
      BY DEF TypeOK
    <2> QED BY <2>1
  <1> QED BY <1>1, ZenonT(60) DEF Releasing, WillBeDown

LEMMA ReleasingStep ==
  ASSUME TypeOK, Gated, Translating, Releasing, [Next]_vars
  PROVE  Releasing'
  <1> USE DEF controller, pic, keys, handler, kmain, console, cursor, serial, kputchar
  <1>1. CASE PicRemap
    <2>1. boot = 1 /\ boot' = boot + 1 /\ UNCHANGED <<out, held, mistaken, shift_down, extended, hpc, sc>>
      BY <1>1, BootPlaces, ZenonT(60) DEF Booting, PicRemap
    <2> QED BY <2>1, BootReleasing, ZenonT(60)
  <1>2. CASE IdtInit
    <2>1. boot = 2 /\ boot' = boot + 1 /\ UNCHANGED <<out, held, mistaken, shift_down, extended, hpc, sc>>
      BY <1>2, BootPlaces, ZenonT(60) DEF Booting, IdtInit
    <2> QED BY <2>1, BootReleasing, ZenonT(60)
  <1>3. CASE AskConfig
    <2>1. boot = 3 /\ boot' = boot + 1 /\ UNCHANGED <<out, held, mistaken, shift_down, extended, hpc, sc>>
      BY <1>3, BootPlaces, ZenonT(60) DEF Booting, AskConfig
    <2> QED BY <2>1, BootReleasing, ZenonT(60)
  <1>4. CASE ReadConfig
    <2>1. /\ boot = 4 /\ ~mistaken /\ boot' = boot + 1 /\ out # <<>> /\ ReadData /\ hpc = "none"
          /\ UNCHANGED <<shift_down, extended, hpc, sc, held>>
      BY <1>4, BootPlaces DEF Translating, Booting, ReadConfig
    <2> QED BY <2>1, ReadReleasing
  <1>5. CASE WriteConfig
    <2>1. boot = 5 /\ boot' = boot + 1 /\ UNCHANGED <<out, held, mistaken, shift_down, extended, hpc, sc>>
      BY <1>5, BootPlaces, ZenonT(60) DEF Booting, WriteConfig
    <2> QED BY <2>1, BootReleasing, ZenonT(60)
  <1>6. CASE EnableScanning
    <2>1. boot = 6 /\ boot' = boot + 1 /\ UNCHANGED <<out, held, mistaken, shift_down, extended, hpc, sc>>
      BY <1>6, BootPlaces, ZenonT(60) DEF Booting, EnableScanning
    <2> QED BY <2>1, BootReleasing, ZenonT(60)
  <1>7. CASE ReadAck
    <2>1. /\ boot = 7 /\ boot' = boot + 1 /\ hpc = "none"
          /\ UNCHANGED <<shift_down, extended, hpc, sc, held, mistaken>>
      BY <1>7, BootPlaces, ZenonT(60) DEF Booting, ReadAck
    <2>2. CASE out = <<>>
      <3>1. out' = out
        BY <1>7, <2>2 DEF ReadAck
      <3> QED BY <2>1, <3>1 DEF Releasing, WillBeDown
    <2>3. CASE out # <<>> /\ ~mistaken
      <3>1. ReadData
        BY <1>7, <2>3, ZenonT(60) DEF ReadAck
      <3> QED BY <2>1, <2>3, <3>1, ReadReleasing
    <2>4. CASE mistaken
      BY <2>1, <2>4, SMTT(60) DEF Releasing
    <2> QED BY <2>2, <2>3, <2>4, ZenonT(60)
  <1>8. CASE EnableIrq
    <2>1. boot = 8 /\ boot' = boot + 1 /\ UNCHANGED <<out, held, mistaken, shift_down, extended, hpc, sc>>
      BY <1>8, BootPlaces, ZenonT(60) DEF Booting, EnableIrq
    <2> QED BY <2>1, BootReleasing, ZenonT(60)
  <1>9. CASE Sti
    <2>1. boot = 9 /\ boot' = boot + 1 /\ UNCHANGED <<out, held, mistaken, shift_down, extended, hpc, sc>>
      BY <1>9, BootPlaces, ZenonT(60) DEF Booting, Sti
    <2> QED BY <2>1, BootReleasing, ZenonT(60)
  <1>10. CASE \E n \in Numbers : Klog(n)
    <2>1. boot = 10 /\ boot' = boot + 1 /\ UNCHANGED <<out, held, mistaken, shift_down, extended, hpc, sc>>
      BY <1>10, BootPlaces, ZenonT(60) DEF Booting, Klog
    <2> QED BY <2>1, BootReleasing, ZenonT(60)
  <1>11. CASE KernelPrints BY <1>11, ZenonT(60) DEF Releasing, WillBeDown, KernelPrints
  <1>12. CASE HandlerReads
    <2>1. UNCHANGED <<boot, mistaken, shift_down, extended, held>> /\ hpc = "entry" /\ boot > 9
      BY <1>12, ZenonT(60) DEF HandlerReads, Gated
    <2>2. CASE out = <<>>
      <3>1. out' = out /\ hpc' = "exit"
        BY <1>12, <2>2, ZenonT(60) DEF HandlerReads
      <3> QED BY <2>1, <3>1 DEF Releasing, WillBeDown
    <2>3. CASE out # <<>> /\ ~mistaken
      <3>1. ReadData /\ hpc' = "decode" /\ sc' = Head(out).byte
        BY <1>12, <2>3, ZenonT(60) DEF HandlerReads
      <3>2. /\ out' \in Seq(Entry) /\ Len(out') = Len(out) - 1 /\ Len(out) \in Nat
            /\ DOMAIN out = 1 .. Len(out) /\ DOMAIN out' = 1 .. Len(out')
            /\ 1 \in DOMAIN out /\ sc' = out[1].byte /\ sc' \in Byte
            /\ \A i \in DOMAIN out' : i + 1 \in DOMAIN out /\ out'[i] = out[i + 1]
            /\ \A i \in DOMAIN out : i > 1 => i - 1 \in DOMAIN out' /\ out'[i - 1] = out[i]
        BY <2>3, <3>1, DataRead, SMTT(60) DEF TypeOK
      <3>3. out' # <<>> => out'[Len(out')].byte # 224
        <4>1. ASSUME out' # <<>> PROVE Len(out') \in DOMAIN out' /\ Len(out') + 1 = Len(out)
          BY <3>2, <4>1
        <4> QED BY <2>3, <3>2, <4>1, SMTT(60) DEF Releasing
      <3>4. sc' = 224 => out' # <<>>
        <4>1. out' = <<>> => Len(out) = 1
          BY <3>2
        <4> QED BY <2>3, <3>2, <4>1, ZenonT(60) DEF Releasing
      <3>5. ASSUME "shift" \notin held', NEW i \in DOMAIN out', Press(out'[i].byte)
            PROVE  \E j \in DOMAIN out' : j > i /\ Release(out'[j].byte)
        <4>1. i + 1 \in DOMAIN out /\ Press(out[i + 1].byte)
          BY <3>2, <3>5, ZenonT(60)
        <4>2. PICK j \in DOMAIN out : j > i + 1 /\ Release(out[j].byte)
          BY <2>1, <2>3, <3>5, <4>1, ZenonT(60) DEF Releasing
        <4>3. j - 1 \in DOMAIN out' /\ j - 1 > i /\ Release(out'[j - 1].byte)
          BY <3>2, <4>1, <4>2, SMTT(60)
        <4> QED BY <4>3, ZenonT(60)
      <3>6. ASSUME "shift" \notin held', WillBeDown'
            PROVE  \E j \in DOMAIN out' : Release(out'[j].byte)
        <4>1. CASE sc' # 224 /\ sc' % 128 \in {42, 54}
          <5>3. sc' < 128
            BY <3>1, <3>6, <4>1, SMTT(60) DEF WillBeDown
          <5>1. Press(sc')
            BY <3>2, <4>1, <5>3, ShiftByte, ZenonT(60)
          <5>2. PICK j \in DOMAIN out : j > 1 /\ Release(out[j].byte)
            BY <2>1, <2>3, <3>2, <3>6, <5>1 DEF Releasing
          <5> QED BY <3>2, <5>2, ZenonT(60)
        <4>2. CASE ~(sc' # 224 /\ sc' % 128 \in {42, 54})
          <5>1. shift_down
            BY <2>1, <3>1, <3>6, <4>2, ZenonT(60) DEF WillBeDown
          <5>2. PICK j \in DOMAIN out : Release(out[j].byte)
            BY <2>1, <2>3, <3>6, <5>1, ZenonT(60) DEF Releasing, WillBeDown
          <5>3. j # 1
            BY <3>2, <4>2, <5>2, SMTT(60) DEF Release
          <5>4. j > 1
            BY <3>2, <5>2, <5>3, SMTT(60)
          <5> QED BY <3>2, <5>2, <5>4
        <4> QED BY <4>1, <4>2, ZenonT(60)
      <3> QED BY <2>1, <3>1, <3>3, <3>4, <3>5, <3>6, SMTT(60) DEF Releasing
    <2>4. CASE mistaken
      BY <2>1, <2>4, ZenonT(60) DEF Releasing
    <2> QED BY <2>2, <2>3, <2>4
  <1>13. CASE HandlerPrints BY <1>13 DEF Releasing, WillBeDown, HandlerPrints
  <1>14. CASE Decode
    <2>1. /\ UNCHANGED <<boot, mistaken, out, held>> /\ hpc = "decode" /\ ~(boot <= 9)
          /\ hpc' = "exit" /\ extended' = (sc = 224)
      BY <1>14, SMTT(60) DEF TypeOK, Decode, Gated
    <2>2. WillBeDown' = WillBeDown
      BY <1>14, ZenonT(60) DEF Decode, WillBeDown
    <2>3. CASE mistaken
      BY <2>1, <2>3, ZenonT(60) DEF Releasing
    <2>4. CASE ~mistaken
      <3>1. extended' => out' # <<>>
        BY <2>1, <2>4, ZenonT(60) DEF Releasing
      <3>2. out' # <<>> => out'[Len(out')].byte # 224
        BY <2>1, <2>4, ZenonT(60) DEF Releasing
      <3>3. "shift" \notin held' =>
              /\ WillBeDown' => \E j \in DOMAIN out' : Release(out'[j].byte)
              /\ \A i \in DOMAIN out' : Press(out'[i].byte) =>
                   \E j \in DOMAIN out' : j > i /\ Release(out'[j].byte)
        BY <2>1, <2>2, <2>4, ZenonT(60) DEF Releasing
      <3> QED BY <2>1, <3>1, <3>2, <3>3 DEF Releasing
    <2> QED BY <2>3, <2>4, ZenonT(60)
  <1>15. CASE HandlerReturns BY <1>15, ZenonT(60) DEF Releasing, WillBeDown, HandlerReturns
  <1>16. CASE Interrupt
    <2>1. /\ UNCHANGED <<boot, mistaken, out, held, shift_down, extended>>
          /\ hpc = "none" /\ hpc' # "decode"
      BY <1>16, ZenonT(60) DEF Interrupt, Gated
    <2> QED BY <2>1 DEF Releasing, WillBeDown
  <1>17. CASE SerialMoves BY <1>17 DEF Releasing, WillBeDown, SerialMoves
  <1>18. CASE AnswerConfig
    <2>1. PICK b \in Seq(Byte) :
            b = <<config>> /\ b # <<>> /\ b[Len(b)] = config /\ \A i \in DOMAIN b : b[i] = config
      <3>1. config \in Byte
        BY DEF TypeOK
      <3> QED BY <3>1, OneByte, ZenonT(60)
    <2>2. ~mistaken => config # 224 /\ ~Press(config)
      <3>1. ~mistaken => config \in 64 .. 127
        BY ZenonT(60) DEF Translating
      <3> QED BY <3>1, ConfigByte, ZenonT(60)
    <2>3. /\ Arrive("controller", b) /\ held' = held
          /\ UNCHANGED <<boot, mistaken, shift_down, extended, hpc, sc>>
      BY <1>18, <2>1, ZenonT(60) DEF AnswerConfig
    <2> QED BY <2>1, <2>2, <2>3, ArriveReleasing, ZenonT(60)
  <1>19. CASE Acknowledge
    <2>4. PICK a \in Byte : a = 250
      BY DEF Byte
    <2>1. PICK b \in Seq(Byte) :
            b = <<a>> /\ b # <<>> /\ b[Len(b)] = a /\ \A i \in DOMAIN b : b[i] = a
      BY OneByte, Zenon
    <2>2. /\ Arrive("keyboard", b) /\ held' = held
          /\ UNCHANGED <<boot, mistaken, shift_down, extended, hpc, sc>>
      BY <1>19, <2>1, <2>4, ZenonT(60) DEF Acknowledge
    <2>3. b \in Seq(Byte) /\ b # <<>> /\ b[Len(b)] # 224 /\ \A i \in DOMAIN b : ~Press(b[i])
      BY <2>1, <2>4 DEF Press
    <2> QED BY <2>2, <2>3, ArriveReleasing, SMTT(60)
  <1>20. ASSUME NEW k \in Keys, KeyEvent(k) PROVE Releasing'
    <2> DEFINE b == Bytes(k, k \notin held)
    <2>1. b \in Seq(Byte) /\ b # <<>>
      BY KeyBytes, KeyboardAssumption, ZenonT(60)
    <2>2. ~mistaken => Bit(config, 64)
      BY Bit6 DEF Translating
    <2>3. ~mistaken => b[Len(b)] # 224
      BY <2>2, KeyBytes, KeyboardAssumption, ZenonT(60)
    <2>4. ~mistaken /\ "shift" \notin held' =>
            \/ Release(b[Len(b)])
            \/ "shift" \notin held /\ \A i \in DOMAIN b : ~Press(b[i])
      <3>1. CASE k = "shift" /\ ~mistaken
        <4>1. b = <<IF "shift" \notin held THEN 42 ELSE 170>>
          BY <2>2, <3>1, KeyBytes, ZenonT(60)
        <4>2. "shift" \notin held' => "shift" \in held
          BY <1>20, <3>1 DEF KeyEvent
        <4>3. "shift" \in held => b = <<170>>
          BY <4>1
        <4> HIDE DEF b
        <4>4. "shift" \in held => b[Len(b)] = 170
          BY <4>3
        <4> QED BY <4>2, <4>4 DEF Release
      <3>2. CASE k # "shift" /\ ~mistaken
        <4>3. k \in {"letter", "shift", "arrow"} /\ (k \notin held) \in BOOLEAN
          BY KeyboardAssumption
        <4>1. \A i \in DOMAIN b : ~Press(b[i])
          BY <2>2, <3>2, <4>3, KeyBytes, ZenonT(60)
        <4>2. "shift" \notin held' => "shift" \notin held
          BY <1>20, <3>2 DEF KeyEvent
        <4> QED BY <4>1, <4>2, ZenonT(60)
      <3> QED BY <3>1, <3>2
    <2>5. /\ Arrive("keyboard", b)
          /\ UNCHANGED <<boot, mistaken, shift_down, extended, hpc, sc>>
      BY <1>20, ZenonT(60) DEF KeyEvent
    <2> HIDE DEF b
    <2> QED BY <2>1, <2>3, <2>4, <2>5, ArriveReleasing
  <1>21. CASE UNCHANGED vars BY <1>21 DEF Releasing, WillBeDown, vars
  <1> QED BY <1>1, <1>2, <1>3, <1>4, <1>5, <1>6, <1>7, <1>8, <1>9, <1>10, <1>11, <1>12,
             <1>13, <1>14, <1>15, <1>16, <1>17, <1>18, <1>19, <1>20, <1>21, ZenonT(60)
          DEF Next, Kernel, Hlt

-----------------------------------------------------------------------------

LEMMA InitIInv == ASSUME Init PROVE IInv
  <1>1. TypeOK BY KeyboardAssumption DEF Init, TypeOK, Kpcs, Byte
  <1>2. Gated BY DEF Init, Gated
  <1>3. Placed BY ConsoleAssumption DEF Init, Placed
  <1>4. Counted BY DEF Init, Counted
  <1>5. Translating BY KeyboardAssumption, SMTT(60) DEF Init, Translating
  <1>6. Releasing BY DEF Init, Releasing, WillBeDown
  <1> QED BY <1>1, <1>2, <1>3, <1>4, <1>5, <1>6 DEF IInv

LEMMA IInvHolds == Spec => []IInv
  <1>1. IInv /\ [Next]_vars => IInv'
    BY TypeStep, GatedStep, PlacedStep, CountedStep, TranslatingStep, ReleasingStep DEF IInv
  <1> QED BY InitIInv, <1>1, PTL DEF Spec

\* Every interrupt that the processor takes has a gate: the order of pic_remap,
\* idt_init, ps2_init, enable_irq and sti in kmain lets nothing through earlier.
THEOREM InterruptsHaveGates == Spec => []EveryInterruptHasAGate
  <1>1. IInv => EveryInterruptHasAGate
    BY DEF IInv, Gated, EveryInterruptHasAGate
  <1> QED BY IInvHolds, <1>1, PTL

\* The cursor is on the screen between two characters, whatever the size of the
\* screen and of the font, and wherever interrupts fall in graphics_putchar.
THEOREM CursorStaysOnScreen == Spec => []CursorOnScreen
  <1>1. IInv => CursorOnScreen
    BY DEF IInv, Placed, CursorOnScreen
  <1> QED BY IInvHolds, <1>1, PTL

\* serial_write_char loses at most one character per interrupt.
THEOREM OneLossPerInterrupt == Spec => []SerialLossBounded
  <1>1. IInv => SerialLossBounded
    BY DEF IInv, Counted, SerialLossBounded
  <1> QED BY IInvHolds, <1>1, PTL

\* However many keys are pressed and released, and whenever ps2_handler reads
\* their bytes, shift_down and extended do not outlive the keys.
THEOREM ShiftIsReleased == Spec => []NoStuckShift
  <1>1. IInv => NoStuckShift
    BY DEF IInv, Releasing, WillBeDown, NoStuckShift
  <1> QED BY IInvHolds, <1>1, PTL

\* ps2_init keeps the translation that the firmware turned on, and turns the
\* interrupt on, unless it took a key for the configuration.
THEOREM TranslationIsKept == Spec => []TranslationKept
  <1>1. IInv => TranslationKept
    BY Bit6 DEF IInv, Translating, TranslationKept
  <1> QED BY IInvHolds, <1>1, PTL

=============================================================================
