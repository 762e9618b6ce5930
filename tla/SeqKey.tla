-------------------------------- MODULE SeqKey --------------------------------
(* The key (seq/seq.c): '>scale' takes it apart and stores a root, a mode and *)
(* the name shown, one after the other, on the main task; the clock turns a   *)
(* degree into a note from the root and the mode, on the other core, with no  *)
(* lock between them.                                                         *)
EXTENDS Integers, Sequences, SequencesExt

CONSTANTS Specs,      \* what '>scale' is refused for: sequences of Syllables
          Degrees, Octaves
ASSUME KeyAssumption == Degrees \subseteq 0 .. 9 /\ Octaves \subseteq 0 .. 8

VARIABLES
    root, mode,   \* s_root; s_mode, an index of Modes
    shown,        \* s_scale_name
    storing,      \* seq_scale(): what is still to be stored, or Stored
    reading,      \* degree_note(): [deg, octave, n, root] so far, or Quiet
    heard,        \* the last note, until the next one
    refused,      \* the last '>scale', if it was refused
    crossed       \* history: the key was changed while that note was worked out
keyVars == <<root, mode, shown, storing, reading, heard, refused, crossed>>

-----------------------------------------------------------------------------
(* A spec is a letter, an accidental, a name, cut where the code compares:    *)
(* "maj5" is "maj" "5", and "blues" is "b" "lues".                            *)
Mode(name, iv) == [name |-> name, iv |-> iv]
Modes == <<
    Mode(<<"chrom">>, <<0, 1, 2, 3, 4, 5, 6, 7, 8, 9, 10, 11>>),
    Mode(<<"b", "lues">>, <<0, 3, 5, 6, 7, 10>>),
    Mode(<<"pent">>, <<0, 3, 5, 7, 10>>),
    Mode(<<"maj", "5">>, <<0, 2, 4, 7, 9>>),
    Mode(<<"maj">>, <<0, 2, 4, 5, 7, 9, 11>>),
    Mode(<<"min">>, <<0, 2, 3, 5, 7, 8, 10>>),
    Mode(<<"dor">>, <<0, 2, 3, 5, 7, 9, 10>>),
    Mode(<<"phr">>, <<0, 1, 3, 5, 7, 8, 10>>),
    Mode(<<"lyd">>, <<0, 2, 4, 6, 7, 9, 11>>),
    Mode(<<"mix">>, <<0, 2, 4, 5, 7, 9, 10>>),
    Mode(<<"loc">>, <<0, 1, 3, 5, 6, 8, 10>>) >>
Minor == 6
Letters == [c |-> 0, d |-> 2, e |-> 4, f |-> 5, g |-> 7, a |-> 9, b |-> 11]
Accidentals == [x \in {"#", "b"} |-> IF x = "#" THEN 1 ELSE 11]

(* seq_scale(): the accidental is looked for before the mode.                 *)
Unknown == 0
Accidental(rest) == IF rest # <<>> /\ rest[1] \in DOMAIN Accidentals THEN Accidentals[rest[1]] ELSE 0
Named(rest) == IF rest # <<>> /\ rest[1] \in DOMAIN Accidentals THEN Tail(rest) ELSE rest
\* mutant: the shorter of two names first
LastMatch(name) ==
    IF name = <<>> THEN Minor
    ELSE LET hits == {i \in DOMAIN Modes : IsPrefix(Modes[i].name, name)}
         IN IF hits = {} THEN Unknown ELSE CHOOSE i \in hits : \A j \in hits : j <= i
ModeOf(name) ==
    IF name = <<>> THEN Minor
    ELSE LET hits == {i \in DOMAIN Modes : IsPrefix(Modes[i].name, name)}
         IN IF hits = {} THEN Unknown ELSE CHOOSE i \in hits : \A j \in hits : i <= j
Good(spec) == spec # <<>> /\ spec[1] \in DOMAIN Letters /\ ModeOf(Named(Tail(spec))) # Unknown
\* mutant: a sharp b is not brought back to c
RootUnwrapped(spec) == Letters[spec[1]] + Accidental(Tail(spec))
RootOf(spec) == (Letters[spec[1]] + Accidental(Tail(spec))) % 12
Key(spec) == [root |-> RootOf(spec), mode |-> ModeOf(Named(Tail(spec)))]

(* degree_note(), of the mode its length was read from, the root, and the     *)
(* mode its interval was read from: twelve entries, zero past its own.        *)
Interval(m, i) == IF i < Len(Modes[m].iv) THEN Modes[m].iv[i + 1] ELSE 0
\* mutant: a degree past the mode wraps round
Wrapped(deg, n) == 0
Climb(deg, n) == deg \div n
Clamp(note) == IF note > 127 THEN 127 ELSE note
Pitch(deg, octave, n, r, m) ==
    Clamp(12 * (octave + 1 + Climb(deg, n)) + r + Interval(m, deg % n))
NoteIn(key, deg, octave) ==
    Pitch(deg, octave, Len(Modes[key.mode].iv), key.root, key.mode)

-----------------------------------------------------------------------------
AllStored == [left |-> {}, spec |-> <<>>]
Quiet == [at |-> "quiet"]
Silence == [note |-> 127, key |-> [root |-> 0, mode |-> Minor]]
KeyInit == /\ root = 0 /\ mode = Minor /\ shown = <<"c", "min">>
           /\ storing = AllStored /\ reading = Quiet /\ crossed = FALSE
           /\ refused = <<>> /\ heard = Silence

\* A refused spec stores nothing; the rest follows in the order the compiler left.
\* mutant: the root is stored before the mode has been found
StoreEarly(spec) == IF spec # <<>> /\ spec[1] \in DOMAIN Letters THEN {"root"} ELSE {}
StoreFirst(spec) == {}
Ask(spec) ==
    /\ storing.left = {}
    /\ storing' = IF Good(spec) THEN [left |-> {"root", "mode"}, spec |-> spec] ELSE AllStored
    /\ refused' = IF Good(spec) THEN <<>> ELSE spec
    /\ root' = IF StoreFirst(spec) = {} THEN root ELSE RootOf(spec)
    /\ UNCHANGED <<mode, shown, reading, heard, crossed>>
Store(what) ==
    /\ what \in storing.left
    /\ storing' = [storing EXCEPT !.left = @ \ {what}]
    /\ root' = IF what = "root" THEN Key(storing.spec).root ELSE root
    /\ mode' = IF what = "mode" THEN Key(storing.spec).mode ELSE mode
    /\ shown' = IF storing'.left = {} THEN storing.spec ELSE shown
    /\ crossed' = (crossed \/ reading # Quiet)
    /\ UNCHANGED <<reading, heard, refused>>

(* fire_event() on a voice: how many the mode has, then the root, then the    *)
(* interval, of the mode as it was or as it is by then.                       *)
BeginNote(deg, octave) ==
    /\ reading = Quiet
    /\ reading' = [at |-> "counted", deg |-> deg, octave |-> octave,
                   n |-> Len(Modes[mode].iv), mode |-> mode, root |-> 0]
    /\ crossed' = (storing.left # {}) /\ heard' = Silence
    /\ UNCHANGED <<root, mode, shown, storing, refused>>
ReadRoot ==
    /\ reading.at = "counted"
    /\ reading' = [reading EXCEPT !.at = "rooted", !.root = root]
    /\ UNCHANGED <<root, mode, shown, storing, heard, refused, crossed>>
Sound ==
    /\ reading.at = "rooted"
    /\ \E m \in {reading.mode, mode} :
          heard' = [note |-> Pitch(reading.deg, reading.octave, reading.n, reading.root, m),
                    key |-> Key(shown)]
    /\ reading' = Quiet
    /\ UNCHANGED <<root, mode, shown, storing, refused, crossed>>

KeyNext ==
    \/ \E spec \in Specs : Ask(spec)
    \/ \E what \in {"root", "mode"} : Store(what)
    \/ \E deg \in Degrees, octave \in Octaves : BeginNote(deg, octave)
    \/ ReadRoot \/ Sound
KeySpec == KeyInit /\ [][KeyNext]_keyVars

-----------------------------------------------------------------------------
KeyTypeOK ==
    /\ root \in 0 .. 11 /\ mode \in DOMAIN Modes
    /\ shown \in Specs \cup {<<"c", "min">>} /\ heard.note \in 0 .. 127

(* 'A wrong note is not expressible': a note worked out while the key stood   *)
(* still is one of the key the screen shows, or the top of MIDI's range       *)
(* (degree_note, seq_scale).                                                  *)
PitchClasses(key) == {(key.root + Modes[key.mode].iv[i]) % 12 : i \in DOMAIN Modes[key.mode].iv}
InTheKeyShown ==
    reading = Quiet /\ ~crossed => heard.note = 127 \/ heard.note % 12 \in PitchClasses(heard.key)

(* 'So "0123456789" is a run and not a wrap': in the key of the moment each   *)
(* degree is above the one before it, in every octave, up to the top of the   *)
(* range (degree_note).                                                       *)
Climbs(key) ==
    \A o \in 0 .. 8, d \in 1 .. 9 :
        NoteIn(key, d, o) > NoteIn(key, d - 1, o) \/ NoteIn(key, d - 1, o) = 127
Climbing ==
    [r \in 0 .. 11 |-> [m \in DOMAIN Modes |-> Climbs([root |-> r, mode |-> m])]]
DegreesClimb == Climbing[root][mode]

(* '"maj" swallows "maj5"' is the bug the table's order is there against:     *)
(* a key with an accidental and a name of the table is taken, and once it is  *)
(* stored it is that root and that mode (seq_scale).                          *)
Grammar(accidentals) ==
    {[l |-> l, x |-> x, i |-> i] : l \in DOMAIN Letters, x \in accidentals, i \in DOMAIN Modes}
Spelled(k) == <<k.l>> \o k.x \o Modes[k.i].name
Keys == [spec \in {Spelled(k) : k \in Grammar({<<"#">>, <<"b">>})} |->
           CHOOSE k \in Grammar({<<"#">>, <<"b">>}) : Spelled(k) = spec]
KeyAsAsked ==
    /\ refused \notin DOMAIN Keys
    /\ storing.left = {} /\ shown \in DOMAIN Keys =>
           /\ mode = Keys[shown].i
           /\ root = (Letters[Keys[shown].l] + Accidentals[Keys[shown].x[1]]) % 12

(* '"b" swallows "blues"' is the other one: 'a root a-g, then # or b, then    *)
(* one of' the names (c_scale), and a key with no accidental is taken too.    *)
EveryKeyIsTaken ==
    \A k \in Grammar({<<>>, <<"#">>, <<"b">>}) : refused # Spelled(k)

(* A key is read as it is written, and its degrees are a run (seq_scale,     *)
(* degree_note).                                                             *)
KeyIsAsRead == KeyAsAsked /\ DegreesClimb
==============================================================================
