------------------------------ MODULE Keyboard ------------------------------
(***************************************************************************)
(* The keyboard interrupt: ps2.c, pic.c, interrupts.asm, the gates of      *)
(* idt.c and the part of kmain (kernel.c) that sets them up, while the     *)
(* kernel prints on the console that the handler prints on too.            *)
(*                                                                         *)
(* External: the controller, which shows one byte at a time and raises     *)
(* IRQ1 while it does, if its configuration says so; the interrupt         *)
(* controller, which latches rising edges and forgets them when it is      *)
(* initialised or the line falls; the keyboard; the timer, whose IRQ0 is   *)
(* always pending.  A byte is a number; `out` are the bytes to be shown,   *)
(* with their sender.                                                      *)
(***************************************************************************)
EXTENDS Console, FiniteSets

CONSTANTS Keys,             \* keys that are used: "letter", "shift", "arrow"
          MaxEvents,        \* bound: times a key goes down or up
          Configs,          \* configurations that the firmware leaves: they
                            \* translate (bit 6), and bit 7 is always 0
          Numbers           \* arguments of the klog calls behind sti

ASSUME KeyboardAssumption ==
  /\ Keys \subseteq {"letter", "shift", "arrow"}
  /\ MaxEvents \in Nat
  /\ Configs \subseteq 64 .. 127
  /\ \A n \in Numbers : n \in INT_MIN .. INT_MAX

VARIABLES out, config,              \* the controller
          asked, ack,               \* answers that it and the keyboard owe
          held, events,             \* the keys that are down
          latch, mask, isr, base,   \* the interrupt controller
          gates,                    \* vectors with a gate in the idt
          iflag,                    \* interrupts are enabled
          boot,                     \* how far kmain is
          local,                    \* the variable config of ps2_init
          mistaken,                 \* history: it is not the controller's answer
          shift_down, extended,
          hpc, htext, sc            \* the handler, what it prints, the byte

controller == <<out, config, asked, ack, held, events>>
pic == <<latch, mask, isr, base>>
keys == <<shift_down, extended>>
handler == <<hpc, htext, sc>>
kmain == <<boot, local, mistaken>>
console == <<cursor, serial, kputchar>>
vars == <<controller, pic, gates, iflag, keys, handler, kmain, console>>

Init ==
  /\ out = <<>> /\ config \in Configs
  /\ asked = FALSE /\ ack = FALSE
  /\ held = {} /\ events = 0
  /\ latch = {0} /\ mask = {} /\ isr = {} /\ base = 8
  /\ gates = {} /\ iflag = FALSE
  /\ boot = 1 /\ local = 0 /\ mistaken = FALSE
  /\ shift_down = FALSE /\ extended = FALSE
  /\ hpc = "none" /\ htext = <<>> /\ sc = 0
  /\ cursor_x = 0 /\ cursor_y = 0
  /\ thr = FALSE /\ lost = 0
  /\ kpc = "idle" /\ reg = 0 /\ text = <<>>

-----------------------------------------------------------------------------
(* The hardware *)

\* n & w, for w a power of two.
Bit(n, w) == (n \div w) % 2 = 1

\* IRQ1 as the output buffer is filled, emptied, or allowed to interrupt.
Irq1(full, enabled) == latch' = IF full /\ enabled THEN latch \cup {1} ELSE latch \ {1}

\* Bytes behind those that wait; the first one makes an edge.
Arrive(src, bytes) ==
  /\ out' = out \o [i \in DOMAIN bytes |-> [src |-> src, byte |-> bytes[i]]]
  /\ IF out = <<>> THEN Irq1(TRUE, Bit(config, 1)) ELSE UNCHANGED latch
  /\ UNCHANGED <<mask, isr, base>>

\* inb(PS2_DATA_PORT); the next byte makes an edge again.
ReadData ==
  /\ out' = Tail(out)
  /\ Irq1(Len(out) > 1, Bit(config, 1))

\* Scancodes: translated to set 1 if bit 6 of the configuration is set.
Bytes(key, down) ==
  IF Bit(config, 64)
  THEN [letter |-> <<IF down THEN 30 ELSE 158>>, shift |-> <<IF down THEN 42 ELSE 170>>,
        arrow |-> <<224, IF down THEN 72 ELSE 200>>][key]
  ELSE (IF down THEN <<>> ELSE <<240>>) \o [letter |-> <<28>>, shift |-> <<18>>, arrow |-> <<117>>][key]

KeyEvent(key) ==
  /\ events < MaxEvents
  /\ events' = events + 1
  /\ held' = IF key \in held THEN held \ {key} ELSE held \cup {key}
  /\ Arrive("keyboard", Bytes(key, key \notin held))
  /\ UNCHANGED <<config, asked, ack, gates, iflag, keys, handler, kmain, console>>

AnswerConfig ==
  /\ asked /\ asked' = FALSE
  /\ Arrive("controller", <<config>>)
  /\ UNCHANGED <<config, ack, held, events, gates, iflag, keys, handler, kmain, console>>

Acknowledge ==
  /\ ack /\ ack' = FALSE
  /\ Arrive("keyboard", <<250>>)
  /\ UNCHANGED <<config, asked, held, events, gates, iflag, keys, handler, kmain, console>>

SerialMoves == SerialSends /\ UNCHANGED <<controller, pic, gates, iflag, keys, handler, kmain>>

\* The processor takes the interrupt through the gate of its vector; the gates
\* are interrupt gates and clear the interrupt flag.
Interrupt ==
  /\ iflag
  /\ \E i \in latch \ mask :
       /\ \A j \in isr : i < j
       /\ \A j \in latch \ mask : i <= j
       /\ latch' = latch \ {i}
       /\ isr' = isr \cup {i}
       /\ hpc' = IF base + i \in gates THEN "entry" ELSE "fault"
  /\ iflag' = FALSE
  /\ lost' = 0
  /\ UNCHANGED <<controller, mask, base, gates, keys, htext, sc, kmain, cursor, thr, kputchar>>

-----------------------------------------------------------------------------
(* kmain, from pic_remap on *)

\* Wrong on purpose: the interrupt controller is initialised after the keyboard.
RemapLast == <<"idt_init", "ask", "read_config", "write_config", "scan", "read_ack",
               "pic_remap", "enable_irq", "sti", "klog", "hlt">>

\* The order of the calls in kmain, ps2_init in its place.
BootOrder == <<"pic_remap", "idt_init", "ask", "read_config", "write_config", "scan",
               "read_ack", "enable_irq", "sti", "klog", "hlt">>

Booting(step) ==
  /\ hpc = "none" /\ kpc \in {"idle", "done"}
  /\ BootOrder[boot] = step
  /\ boot' = boot + 1

\* pic_remap: initialised, vectors from 32 on, everything masked.
PicRemap ==
  /\ Booting("pic_remap")
  /\ latch' = {0} /\ isr' = {} /\ mask' = {0, 1} /\ base' = 32
  /\ UNCHANGED <<controller, gates, iflag, keys, handler, local, mistaken, console>>

IdtInit ==
  /\ Booting("idt_init")
  /\ gates' = 0 .. 31 \cup {32 + 1}
  /\ UNCHANGED <<controller, pic, iflag, keys, handler, local, mistaken, console>>

\* ps2_init, in five steps.
AskConfig ==
  /\ Booting("ask")
  /\ asked' = TRUE
  /\ UNCHANGED <<out, config, ack, held, events, pic, gates, iflag, keys, handler,
                 local, mistaken, console>>

\* Wrong on purpose: bit 6 is cleared, and with it translation.
NoTranslation(c) ==
  LET on == IF Bit(c, 1) THEN c ELSE c + 1
  IN  IF Bit(on, 64) THEN on - 64 ELSE on

\* config |= 0x01; config &= ~0x10
NewConfig(c) ==
  LET on == IF Bit(c, 1) THEN c ELSE c + 1
  IN  IF Bit(on, 16) THEN on - 16 ELSE on

\* What waits in the output buffer is taken for the answer.
ReadConfig ==
  /\ Booting("read_config") /\ out # <<>>
  /\ local' = NewConfig(Head(out).byte)
  /\ mistaken' = (Head(out).src # "controller")
  /\ ReadData
  /\ UNCHANGED <<config, asked, ack, held, events, mask, isr, base, gates, iflag, keys,
                 handler, console>>

WriteConfig ==
  /\ Booting("write_config")
  /\ config' = local
  /\ IF out # <<>> /\ ~Bit(config, 1) THEN Irq1(TRUE, TRUE) ELSE UNCHANGED latch
  /\ UNCHANGED <<out, asked, ack, held, events, mask, isr, base, gates, iflag, keys,
                 handler, local, mistaken, console>>

EnableScanning ==
  /\ Booting("scan")
  /\ ack' = TRUE
  /\ UNCHANGED <<out, config, asked, held, events, pic, gates, iflag, keys, handler,
                 local, mistaken, console>>

ReadAck ==
  /\ Booting("read_ack")
  /\ IF out # <<>> THEN ReadData ELSE UNCHANGED <<out, latch>>
  /\ UNCHANGED <<config, asked, ack, held, events, mask, isr, base, gates, iflag, keys,
                 handler, local, mistaken, console>>

\* Wrong on purpose: the mask is replaced, not changed.
EnableAll ==
  /\ Booting("enable_irq")
  /\ mask' = {}
  /\ UNCHANGED <<controller, latch, isr, base, gates, iflag, keys, handler,
                 local, mistaken, console>>

\* enable_irq(1)
EnableIrq ==
  /\ Booting("enable_irq")
  /\ mask' = mask \ {1}
  /\ UNCHANGED <<controller, latch, isr, base, gates, iflag, keys, handler,
                 local, mistaken, console>>

Sti ==
  /\ Booting("sti")
  /\ iflag' = TRUE
  /\ UNCHANGED <<controller, pic, gates, keys, handler, local, mistaken, console>>

Klog(n) ==
  /\ Booting("klog")
  /\ kpc' = "char" /\ text' = klog(n)
  /\ UNCHANGED <<controller, pic, gates, iflag, keys, handler, local, mistaken,
                 cursor, serial, reg>>

\* The loop at the end of kmain.
Hlt == BootOrder[boot] = "hlt" /\ kpc = "done" /\ hpc = "none" /\ UNCHANGED vars

KernelPrints ==
  /\ hpc = "none"
  /\ Printing
  /\ UNCHANGED <<controller, pic, gates, iflag, keys, handler, kmain>>

-----------------------------------------------------------------------------
(* keyboard_handler and ps2_handler *)

\* The byte is read, and printed as a number.
HandlerReads ==
  /\ hpc = "entry"
  /\ IF out = <<>> THEN hpc' = "exit" /\ UNCHANGED <<out, latch, sc, htext>>
     ELSE /\ hpc' = "decode"
          /\ sc' = Head(out).byte
          /\ htext' = <<LETTER, NEWLINE>>
          /\ ReadData
  /\ UNCHANGED <<config, asked, ack, held, events, mask, isr, base, gates, iflag, keys,
                 kmain, console>>

\* Wrong on purpose: the handler does not wait for the serial port.
HandlerPrintsBlindly ==
  /\ htext # <<>>
  /\ PutChar(Head(htext)) /\ Send
  /\ htext' = Tail(htext)
  /\ UNCHANGED <<controller, pic, gates, iflag, keys, hpc, sc, kmain, kputchar>>

HandlerPrints ==
  /\ htext # <<>> /\ ~thr
  /\ PutChar(Head(htext)) /\ Send
  /\ htext' = Tail(htext)
  /\ UNCHANGED <<controller, pic, gates, iflag, keys, hpc, sc, kmain, kputchar>>

\* Wrong on purpose: the release of shift is not told from its press.
DecodeForgetsBreak ==
  /\ hpc = "decode" /\ htext = <<>>
  /\ extended' = (sc = 224)
  /\ shift_down' = (shift_down \/ sc % 128 \in {42, 54})
  /\ htext' = <<>> /\ hpc' = "exit" /\ sc' = 0
  /\ UNCHANGED <<controller, pic, gates, iflag, kmain, console>>

\* The rest of ps2_handler: 0xE0, shift, the second byte of a pair, a release,
\* and the character of a key, if the tables have one.
Decode ==
  /\ hpc = "decode" /\ htext = <<>>
  /\ extended' = (sc = 224)
  /\ shift_down' = IF sc # 224 /\ sc % 128 \in {42, 54} THEN sc < 128 ELSE shift_down
  /\ htext' = IF sc % 128 \notin {42, 54} /\ ~extended /\ sc < 58 THEN <<LETTER>> ELSE <<>>
  /\ hpc' = "exit" /\ sc' = 0
  /\ UNCHANGED <<controller, pic, gates, iflag, kmain, console>>

\* pic_send_eoi(1), iretq
HandlerReturns ==
  /\ hpc = "exit" /\ htext = <<>>
  /\ isr' = isr \ {1}
  /\ iflag' = TRUE
  /\ hpc' = "none"
  /\ UNCHANGED <<controller, latch, mask, base, gates, keys, htext, sc, kmain, console>>

-----------------------------------------------------------------------------

Kernel ==
  \/ PicRemap \/ IdtInit \/ AskConfig \/ ReadConfig \/ WriteConfig \/ EnableScanning
  \/ ReadAck \/ EnableIrq \/ Sti \/ (\E n \in Numbers : Klog(n)) \/ KernelPrints
  \/ HandlerReads \/ HandlerPrints \/ Decode \/ HandlerReturns

Next ==
  \/ Kernel \/ Hlt \/ Interrupt \/ SerialMoves \/ AnswerConfig \/ Acknowledge
  \/ \E k \in Keys : KeyEvent(k)

\* The processor runs and takes interrupts, the port sends, the controller and the
\* keyboard answer; nobody has to type.
Spec ==
  /\ Init /\ [][Next]_vars
  /\ WF_vars(Kernel) /\ WF_vars(Interrupt) /\ WF_vars(SerialMoves)
  /\ WF_vars(AnswerConfig) /\ WF_vars(Acknowledge)

-----------------------------------------------------------------------------

\* An interrupt finds a gate: only IRQ1 is let through, and only when the tables
\* are loaded, though the timer ticks all the time.
EveryInterruptHasAGate == hpc # "fault"

\* No byte stays in the controller.  One that did would block the keyboard for
\* ever: without a new edge there is no interrupt, and without the interrupt the
\* byte is not read.
BytesAreRead == out # <<>> ~> out = <<>>

\* Between two characters the cursor is on the screen, wherever the interrupt
\* came in the kernel's graphics_putchar.
CursorOnScreen ==
  kpc \in {"idle", "char", "ready", "send", "done"} => cursor_x < fb_width /\ cursor_y < fb_height

\* An interrupt between the test and the write of serial_write_char costs a
\* character, and never more than one until the next interrupt.
SerialLossBounded == lost <= 1

\* When all keys are up and all bytes handled, no shift is left down and no
\* prefix pending, unless ps2_init took a key for the configuration and with it
\* turned the translation off.
NoStuckShift ==
  (held = {} /\ out = <<>> /\ hpc = "none" /\ ~mistaken) => ~shift_down /\ ~extended

\* ps2_init leaves translation as it was, which the tables of ps2_handler need,
\* unless it took a key for the configuration.
TranslationKept ==
  (boot > 5 /\ ~mistaken) => Bit(config, 64) /\ Bit(config, 1)

Value(digits) ==
  LET f[i \in 0 .. Len(digits)] == IF i = 0 THEN 0 ELSE 10 * f[i - 1] + digits[i]
  IN  f[Len(digits)]

\* klog prints every int in decimal, except for INT_MIN.
NumbersShown ==
  boot = 1 =>
    \A n \in INT_MIN + 1 .. INT_MAX :
      n = IF n < 0 THEN -Value(Tail(Decimal(n))) ELSE Value(Decimal(n))

=============================================================================
