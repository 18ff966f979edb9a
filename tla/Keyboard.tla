------------------------------ MODULE Keyboard ------------------------------
(***************************************************************************)
(* The polled PS/2 keyboard driver of src/kernel/io/keyboard.c.            *)
(*                                                                         *)
(* Nothing in LazyDOS takes an interrupt: scan codes of presses, repeats   *)
(* and releases queue up in the keyboard and its controller while a        *)
(* program computes, and the driver learns of a modifier only when it      *)
(* reads the code, possibly long after the key has come up again.  What    *)
(* each press meant to the typist is recorded beside its code, so that the *)
(* properties can compare it with what the driver returns.                 *)
(***************************************************************************)
EXTENDS Integers, Sequences, FiniteSets

CONSTANTS
  Key,        \* the keys of the keyboard that are ever touched
  ScanCode,   \* [Key -> 0..127], their set 1 make codes
  Extended,   \* the keys whose codes are sent after a 0xE0 byte
  Ascii,      \* the characters the translation tables hold, 0 included
  NUL,        \* the table entry 0
  DC2, CAN,   \* 0x12 and 0x18, the answers for Ctrl+R and Ctrl+X
  normal, shifted,   \* the two translation tables
  Capacity    \* how many bytes keyboard and controller hold

ASSUME KeyboardAssumption ==
  /\ ScanCode \in [Key -> 0 .. 127]
  /\ Extended \subseteq Key
  /\ NUL \in Ascii
  /\ {DC2, CAN} \subseteq Ascii \ {NUL}
  /\ normal \in [0 .. 127 -> Ascii]
  /\ shifted \in [0 .. 127 -> Ascii]
  /\ Capacity \in Nat \ {0}

VARIABLES
  down,    \* the keys held down
  last,    \* the key that repeats: the one pressed last, if still held
  obuf,    \* the bytes waiting at port 0x60, with their meaning
  lost,    \* whether a byte was ever dropped because obuf was full
  state,   \* the driver's four modifier bits
  phase,   \* "busy" or, inside lazy_getchar, "waiting"
  got      \* what lazy_getchar returned last, NUL before that

vars == <<down, last, obuf, lost, state, phase, got>>

-----------------------------------------------------------------------------
(* Scan codes and the driver's functions on them.                          *)

Modifier == {"shift", "ctrl", "alt", "del"}

\* The cases of update_modifiers: 0x2A and 0x36, 0x1D, 0x38, 0x53.
ModifierCode ==
  [shift |-> {42, 54}, ctrl |-> {29}, alt |-> {56}, del |-> {83}]

R == 19   \* 0x13
X == 45   \* 0x2D

\* A byte whose high bit is set is a release of the code in the other bits.
\* 0xE0, the prefix of extended keys, is read as such a release of 0x60.
Byte == [code : 0 .. 127, release : BOOLEAN, meant : Ascii]

\* Mutant: the release of Ctrl is not a case.
update_modifiersStickyCtrl(st, sc) ==
  [m \in Modifier |-> IF sc.code \in ModifierCode[m] /\ ~(sc.release /\ m = "ctrl")
                      THEN ~sc.release ELSE st[m]]

update_modifiers(st, sc) ==
  [m \in Modifier |-> IF sc.code \in ModifierCode[m] THEN ~sc.release ELSE st[m]]

\* The character of a byte read when the modifier bits are st.
Translation(st, code, release) ==
  CASE release                      -> NUL
    [] ~release /\ st.ctrl /\ code = R -> DC2
    [] ~release /\ st.ctrl /\ code = X -> CAN
    [] OTHER -> IF st.shift THEN shifted[code] ELSE normal[code]

-----------------------------------------------------------------------------
(* The typist and the hardware, external to the driver.                    *)

Held(keys) ==
  [m \in Modifier |-> \E k \in keys : ScanCode[k] \in ModifierCode[m]]

Codes(k, release, keys) ==
  LET prefix == [code |-> 96, release |-> TRUE, meant |-> NUL]
      code == [code |-> ScanCode[k], release |-> release,
               meant |-> Translation(Held(keys), ScanCode[k], release)]
  IN  IF k \in Extended THEN <<prefix, code>> ELSE <<code>>

\* The bytes that find no room are dropped.
Send(bytes) ==
  LET all == obuf \o bytes
  IN  /\ obuf' = IF Len(all) <= Capacity THEN all ELSE SubSeq(all, 1, Capacity)
      /\ lost' = (lost \/ Len(all) > Capacity)

Press(k) ==
  /\ k \notin down
  /\ down' = down \union {k}
  /\ last' = {k}
  /\ Send(Codes(k, FALSE, down'))
  /\ UNCHANGED <<state, phase, got>>

\* Typematic repeat: only the key pressed last repeats.
Repeat(k) ==
  /\ k \in last
  /\ Send(Codes(k, FALSE, down))
  /\ UNCHANGED <<down, last, state, phase, got>>

Release(k) ==
  /\ k \in down
  /\ down' = down \ {k}
  /\ last' = last \ {k}
  /\ Send(Codes(k, TRUE, down'))
  /\ UNCHANGED <<state, phase, got>>

-----------------------------------------------------------------------------
(* The driver.                                                             *)

data_waiting == obuf # <<>>

\* A program calls lazy_getchar.
GetChar ==
  /\ phase = "busy"
  /\ phase' = "waiting"
  /\ UNCHANGED <<down, last, obuf, lost, state, got>>

\* Mutant: the byte is read from the data port only if it is a character.
PollPeeks ==
  /\ phase = "waiting"
  /\ data_waiting
  /\ LET sc == Head(obuf)
         c == Translation(update_modifiers(state, sc), sc.code, sc.release)
     IN  /\ state' = update_modifiers(state, sc)
         /\ IF c = NUL
            THEN UNCHANGED <<phase, got, obuf>>
            ELSE phase' = "busy" /\ got' = c /\ obuf' = Tail(obuf)
  /\ UNCHANGED <<down, last, lost>>

\* One turn of the loop in lazy_getchar that finds a byte: lazy_trygetchar
\* reads it, and the loop ends unless the answer is 0.
Poll ==
  /\ phase = "waiting"
  /\ data_waiting
  /\ LET sc == Head(obuf)
         c == Translation(update_modifiers(state, sc), sc.code, sc.release)
     IN  /\ state' = update_modifiers(state, sc)
         /\ IF c = NUL
            THEN UNCHANGED <<phase, got>>
            ELSE phase' = "busy" /\ got' = c
  /\ obuf' = Tail(obuf)
  /\ UNCHANGED <<down, last, lost>>

Init ==
  /\ down = {}
  /\ last = {}
  /\ obuf = <<>>
  /\ lost = FALSE
  /\ state = [m \in Modifier |-> FALSE]
  /\ phase = "busy"
  /\ got = NUL

Typist == \E k \in Key : Press(k) \/ Repeat(k) \/ Release(k)

Next == Typist \/ GetChar \/ Poll

\* The loop in lazy_getchar never sleeps and never gives up.
Spec == Init /\ [][Next]_vars /\ WF_vars(Poll)

-----------------------------------------------------------------------------
(* Every variable has its type: at most Capacity bytes wait, and only held *)
(* keys repeat.                                                            *)
TypeOK ==
  /\ down \subseteq Key
  /\ last \subseteq down
  /\ obuf \in Seq(Byte)
  /\ Len(obuf) <= Capacity
  /\ lost \in BOOLEAN
  /\ state \in [Modifier -> BOOLEAN]
  /\ phase \in {"busy", "waiting"}
  /\ got \in Ascii

\* The waiting bytes that update_modifiers will see as keys of modifier m, and
\* the value its bit will have when all of them have been read.
Pending(m) == {i \in DOMAIN obuf : obuf[i].code \in ModifierCode[m]}

Foreseen(m, value) ==
  IF Pending(m) = {}
  THEN state[m] = value
  ELSE \E i \in Pending(m) : /\ \A j \in Pending(m) : j <= i
                             /\ obuf[i].release = ~value

(* No modifier sticks: unless the hardware dropped a byte, a modifier bit  *)
(* that will be set once the waiting bytes are read belongs to a key that  *)
(* is held down, however long the program let presses, repeats and         *)
(* releases queue up before it called lazy_getchar.                        *)
NoStuckModifier ==
  ~lost => \A m \in Modifier : Foreseen(m, TRUE) => Held(down)[m]

(* lazy_getchar returns once a character that both tables print waits in   *)
(* the controller, whatever releases and modifiers are queued before it    *)
(* and however fast the typist goes on.                                    *)
Prints(sc) == ~sc.release /\ NUL \notin {normal[sc.code], shifted[sc.code]}

Answered ==
  (phase = "waiting" /\ \E i \in DOMAIN obuf : Prints(obuf[i]))
    ~> phase = "busy"

(* lazy_getchar returns what the key meant when it was struck: the shifted *)
(* character if a Shift key was held then, the plain one if not.           *)
AsMeant ==
  [][~lost /\ phase = "waiting" /\ phase' = "busy" => got' = Head(obuf).meant]_vars

-----------------------------------------------------------------------------
(* What the driver promises: a type-ahead buffer of characters.            *)

\* The waiting bytes that are characters, read in the order of their places.
Struck == {i \in DOMAIN obuf : obuf[i].meant # NUL}

Typed ==
  [n \in 1 .. Cardinality(Struck) |->
    obuf[CHOOSE i \in Struck : Cardinality({j \in Struck : j <= i}) = n].meant]

Ahead == INSTANCE Typeahead WITH typed <- Typed, intact <- ~lost, answer <- got

(* The modifier bits that travel in the same queue as the characters are   *)
(* right for each character: until a byte is dropped, programs read the    *)
(* meant characters once each and in the order in which they were struck.  *)
ImplementsTypeahead == Ahead!Spec
=============================================================================
