------------------------------- MODULE Console -------------------------------
(***************************************************************************)
(* The console: printk and klog of kernel/src/klog.c, the text cursor of   *)
(* graphics.c, the clipping of framebuffer.c and the port of serial.c.     *)
(*                                                                         *)
(* The cursor is shared by the kernel and the keyboard interrupt, without  *)
(* a lock.  The kernel's graphics_putchar runs one access of the cursor    *)
(* per step, so that the interrupt may come between any two; x += w may be *)
(* one instruction or a load, an addition and a store, and is modelled as  *)
(* the latter.  The interrupt handler is not interrupted: its characters   *)
(* are one step each.                                                      *)
(*                                                                         *)
(* Characters are printed to the screen, then to the serial port, whose    *)
(* holding register takes one.  A digit is the number it stands for.       *)
(***************************************************************************)
EXTENDS Integers, Sequences

CONSTANTS FONT_WIDTH, FONT_HEIGHT,
          fb_width, fb_height,
          INT_MAX,              \* greatest int
          UINT64                \* number of values of a uint64_t

INT_MIN == -INT_MAX - 1

\* Characters that are no digits.
NEWLINE == -1
MINUS == -2
LETTER == -3

ASSUME ConsoleAssumption ==
  /\ {FONT_WIDTH, FONT_HEIGHT, fb_width, fb_height} \subseteq Nat \ {0}
  /\ INT_MAX \in Nat /\ UINT64 \in Nat /\ UINT64 > -INT_MIN

VARIABLES cursor_x, cursor_y,
          thr,                  \* a character waits in the serial port
          lost,                 \* overwritten there since the last interrupt
          kpc,                  \* where the kernel is in kputchar
          reg,                  \* the register it has loaded
          text                  \* the characters it has yet to print

cursor == <<cursor_x, cursor_y>>
serial == <<thr, lost>>
kputchar == <<kpc, reg, text>>

-----------------------------------------------------------------------------
(* klog: the level's prefix, the arguments, the newline. *)

\* Wrong on purpose: the digits come out as they are computed.
DigitsReversed(num, base) ==
  LET f[n \in 0 .. num] ==
        IF n < base THEN <<n>> ELSE <<n % base>> \o f[n \div base]
  IN  f[num]

\* kputnum: the digits are collected from the last and printed from the first.
Digits(num, base) ==
  LET f[n \in 0 .. num] ==
        IF n < base THEN <<n>> ELSE Append(f[n \div base], n % base)
  IN  f[num]

\* The case 'd' of printk and klog.  The negation of INT_MIN is INT_MIN again, and
\* the conversion to uint64_t makes it huge.
Decimal(val) ==
  IF val >= 0 THEN Digits(val, 10)
  ELSE <<MINUS>> \o Digits(IF val = INT_MIN THEN UINT64 + INT_MIN ELSE -val, 10)

klog(val) == <<LETTER>> \o Decimal(val) \o <<NEWLINE>>

-----------------------------------------------------------------------------
(* graphics_putchar *)

\* Wrong on purpose: the edges of the screen are tested for equality.
AtEdge(pos, edge) == pos = edge

\* The tests for the right and the lower edge.
Beyond(pos, edge) == pos >= edge

\* The whole of it, as the interrupt runs it.
PutChar(c) ==
  LET wraps == c = NEWLINE \/ Beyond(cursor_x + FONT_WIDTH, fb_width)
      y == IF wraps THEN cursor_y + FONT_HEIGHT ELSE cursor_y
  IN  /\ cursor_x' = IF wraps THEN 0 ELSE cursor_x + FONT_WIDTH
      /\ cursor_y' = IF Beyond(y, fb_height) THEN 0 ELSE y

\* serial_write_char once the holding register has been seen empty.
Send ==
  /\ lost' = IF thr THEN lost + 1 ELSE lost
  /\ thr' = TRUE

\* The port moves the character on to the line.
SerialSends ==
  /\ thr
  /\ thr' = FALSE
  /\ UNCHANGED <<cursor, lost, kputchar>>

Step(to) == kpc' = to /\ UNCHANGED text

\* The kernel's steps.  Drawing uses the cursor and fb_putpixel clips it.
Draw ==
  /\ kpc = "char"
  /\ IF Head(text) = NEWLINE THEN cursor_x' = 0 /\ Step("load_y")
     ELSE UNCHANGED cursor_x /\ Step("load_x")
  /\ UNCHANGED <<cursor_y, reg, serial>>

LoadX ==
  /\ kpc = "load_x" /\ Step("store_x")
  /\ reg' = cursor_x
  /\ UNCHANGED <<cursor, serial>>

StoreX ==
  /\ kpc = "store_x" /\ Step("test_x")
  /\ cursor_x' = reg + FONT_WIDTH
  /\ reg' = 0
  /\ UNCHANGED <<cursor_y, serial>>

TestX ==
  /\ kpc = "test_x" /\ Step(IF Beyond(cursor_x, fb_width) THEN "return" ELSE "test_y")
  /\ UNCHANGED <<cursor, reg, serial>>

CarriageReturn ==
  /\ kpc = "return" /\ Step("load_y")
  /\ cursor_x' = 0
  /\ UNCHANGED <<cursor_y, reg, serial>>

LoadY ==
  /\ kpc = "load_y" /\ Step("store_y")
  /\ reg' = cursor_y
  /\ UNCHANGED <<cursor, serial>>

StoreY ==
  /\ kpc = "store_y" /\ Step("test_y")
  /\ cursor_y' = reg + FONT_HEIGHT
  /\ reg' = 0
  /\ UNCHANGED <<cursor_x, serial>>

TestY ==
  /\ kpc = "test_y" /\ Step(IF Beyond(cursor_y, fb_height) THEN "top" ELSE "ready")
  /\ UNCHANGED <<cursor, reg, serial>>

Top ==
  /\ kpc = "top" /\ Step("ready")
  /\ cursor_y' = 0
  /\ UNCHANGED <<cursor_x, reg, serial>>

\* serial_write_char polls, then writes.
PollSerial ==
  /\ kpc = "ready" /\ ~thr /\ Step("send")
  /\ UNCHANGED <<cursor, reg, serial>>

SendChar ==
  /\ kpc = "send"
  /\ Send
  /\ text' = Tail(text)
  /\ kpc' = IF Len(text) = 1 THEN "done" ELSE "char"
  /\ UNCHANGED <<cursor, reg>>

Printing ==
  \/ Draw \/ LoadX \/ StoreX \/ TestX \/ CarriageReturn \/ LoadY \/ StoreY
  \/ TestY \/ Top \/ PollSerial \/ SendChar

=============================================================================
