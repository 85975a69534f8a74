----------------------------- MODULE LineInput -----------------------------
(***************************************************************************)
(* What the terminal promises to the programs that read from it: the keys  *)
(* have their effect in the order they are struck, each once and before    *)
(* any reader goes on; characters are edited by the backspace up to the    *)
(* last newline and given to one reader each, and no read goes beyond a    *)
(* line.                                                                   *)
(*                                                                         *)
(* kept says that the terminal is still bound by this; once it is FALSE    *)
(* anything may happen.                                                    *)
(***************************************************************************)
EXTENDS Naturals, Sequences, SequencesExt

CONSTANTS Task, Char, NL, BS,
          Room,         \* how many characters may be typed ahead
          MaxNr         \* the most that one read asks for

VARIABLES struck,       \* the keys that have had no effect yet
          line,         \* what has been typed and not yet read
          got,          \* got[t]: what the present or last read of t has got
          kept

lineVars == <<struck, line, got, kept>>

LineInit ==
    struck = << >> /\ line = << >> /\ got = [t \in Task |-> << >>] /\ kept = TRUE

Press(k) == struck' = Append(struck, k) /\ UNCHANGED <<line, got>>

\* The next of the keys that were struck has its effect.
Typed(k) == Len(line) < Room /\ line' = Append(line, k)
Ignored(k) == k # NL /\ Len(line) = Room /\ line' = line
Erased == line' = IF line = << >> \/ Last(line) = NL THEN line ELSE Front(line)

Effect ==
    /\ struck # << >>
    /\ LET k == Head(struck)
       IN  IF k = BS THEN Erased ELSE Typed(k) \/ Ignored(k)
    /\ struck' = Tail(struck)
    /\ UNCHANGED got

Begin(t) ==
    /\ struck = << >>
    /\ got' = [got EXCEPT ![t] = << >>]
    /\ UNCHANGED <<struck, line>>

Give(t) ==
    /\ struck = << >> /\ line # << >>
    /\ Len(got[t]) < MaxNr
    /\ got[t] = << >> \/ Last(got[t]) # NL
    /\ got' = [got EXCEPT ![t] = Append(@, Head(line))]
    /\ line' = Tail(line)
    /\ UNCHANGED struck

LineNext ==
    \/ ~kept'
    \/ /\ kept' = kept
       /\ \/ \E k \in Char \cup {NL, BS} : Press(k)
          \/ Effect
          \/ \E t \in Task : Begin(t) \/ Give(t)

LineSpec == LineInit /\ [][LineNext]_lineVars
=============================================================================
