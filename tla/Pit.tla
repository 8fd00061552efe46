--------------------------------- MODULE Pit ---------------------------------
(***************************************************************************)
(* timer_init's frequency_set (device/timer.c, c13) and the 8253 counter 0 *)
(* it programs.  frequency_set is three outb's: the control word to port   *)
(* 0x43, then the low and the high byte of the initial count to port 0x40. *)
(* The 8253, told read/write mode 3 (low byte then high byte), loads the   *)
(* count once both bytes have arrived.  The input frequency of the board   *)
(* is 1193180 Hz; the count is 16 bits.                                    *)
(***************************************************************************)
EXTENDS Integers

CONSTANTS Frequencies   \* IRQ0_FREQUENCY values a build may choose

INPUT_FREQUENCY == 1193180
COUNTER0_NO == 0
READ_WRITE_LATCH == 3
COUNTER_MODE == 2

\* (uint8_t) and uint16_t conversions
U8(x)  == x % 256
U16(x) == x % 65536

VARIABLES
    counter_value,  \* frequency_set's uint16_t argument, COUNTER0_VALUE
    step,           \* next outb of frequency_set, or "done"
    sc, rw, mode,   \* what the 8253 decoded from the last control word
    lsb,            \* low byte latched, waiting for the high byte
    count           \* initial count loaded into counter 0 (-1: none yet)

pvars == <<counter_value, step, sc, rw, mode, lsb, count>>

PitInit ==
    /\ \E f \in Frequencies : counter_value = U16(INPUT_FREQUENCY \div f)
    /\ step = "control"
    /\ sc = 0 /\ rw = 0 /\ mode = 0 /\ lsb = 0 /\ count = -1

\* (uint8_t) (counter_no << 6 | rwl << 4 | counter_mode << 1)
ControlWord(no, rwl, m) == U8(no * 64 + rwl * 16 + m * 2)

\* outb(PIT_CONTROL_PORT, control word); the 8253 decodes SC, RW and M.
OutControl ==
    /\ step = "control"
    /\ LET b == ControlWord(COUNTER0_NO, READ_WRITE_LATCH, COUNTER_MODE)
       IN  /\ sc' = b \div 64
           /\ rw' = (b \div 16) % 4
           /\ mode' = (b \div 2) % 8
    /\ step' = "low"
    /\ UNCHANGED <<counter_value, lsb, count>>

\* outb(counter_port, (uint8_t) counter_value)
OutLow ==
    /\ step = "low"
    /\ lsb' = U8(counter_value)
    /\ step' = "high"
    /\ UNCHANGED <<counter_value, sc, rw, mode, count>>

\* outb(counter_port, (uint8_t) counter_value >> 8): the cast applies to
\* counter_value before the shift.  The 8253 then loads lsb + 256 * msb.
OutHigh ==
    /\ step = "high"
    /\ LET msb == U8(counter_value) \div 256
       IN  count' = lsb + 256 * msb
    /\ step' = "done"
    /\ UNCHANGED <<counter_value, sc, rw, mode, lsb>>

PitNext == OutControl \/ OutLow \/ OutHigh

PitSpec == PitInit /\ [][PitNext]_pvars
=============================================================================
