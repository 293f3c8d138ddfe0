------------------------------ MODULE JsonStream ------------------------------
(***************************************************************************)
(* parse_messages of src/mcp_proxy/server.py: the messages of a payload    *)
(* that arrives in chunks, for both content types.                         *)
(*                                                                         *)
(* A text is a sequence of lexical pieces.  "m" is a message; "<" and ">"  *)
(* are the halves of one that may be cut, {"a":tr and ue}, say: together   *)
(* they are an object, and with anything between them no JSON.  "x" is a   *)
(* value that is no object.  A chunk may end anywhere.  Bytes are left out *)
(* but for those that are no UTF-8, which make the decoder raise.          *)
(*                                                                         *)
(* An action is one turn of a loop of the code.  A message is known by its *)
(* place in the text.                                                      *)
(***************************************************************************)
EXTENDS Naturals, Sequences, SequencesExt, FiniteSets

CONSTANTS ContentTypes,  \* content types of the payloads
          Pieces,        \* what the texts of each type are made of
          MaxText        \* bound: length of a text

Space == {"space", "nl"}

ASSUME StreamAssumption ==
    /\ ContentTypes \subseteq {"json", "ndjson"}
    /\ \A c \in ContentTypes : Pieces[c] \subseteq Space \cup {"m", "<", ">", "x", "[", "]", "comma"}
    /\ MaxText \in Nat

VARIABLES ctype,    \* content type of the payload
          mode,     \* of the JSON parser; an NDJSON payload has none
          buffer,   \* "buffer", or "pending" of an NDJSON payload
          cursor,   \* pieces of the buffer that are dealt with
          step,     \* what the generator is at, then how it ended
          yielded,  \* messages handed to handle_proxy: their places
          text,     \* history: all that has arrived
          dropped   \* history: pieces no longer in the buffer

vars == <<ctype, mode, buffer, cursor, step, yielded, text, dropped>>

\* A payload is refused for what has arrived, or for what has not.
Refused == {"rejected", "incomplete"}
Over == Refused \cup {"accepted", "undecodable"}
Places == 1 .. MaxText

TypeOK ==
    /\ ctype \in ContentTypes
    /\ mode \in {"unknown", "single", "array", "done"}
    /\ buffer \in Seq(Pieces[ctype]) /\ text \in Seq(Pieces[ctype])
    /\ dropped + Len(buffer) = Len(text)
    /\ cursor \in 0 .. Len(buffer)
    /\ step \in {"waiting", "parsing"} \cup Over
    /\ yielded \in Seq(Places)

Init ==
    /\ ctype \in ContentTypes
    /\ mode = "unknown"
    /\ buffer = <<>> /\ cursor = 0
    /\ step = "waiting"
    /\ yielded = <<>>
    /\ text = <<>> /\ dropped = 0

------------------------------------------------------------------------------
(* The JSON library *)

\* Where the message at s[i] ends (the place after it), or 0 if none is there.
MessageEnd(s, i) ==
    CASE s[i] = "m" -> i + 1
      [] s[i] = "<" /\ i < Len(s) /\ s[i + 1] = ">" -> i + 2
      [] OTHER -> 0
MessageAt(s, i) == MessageEnd(s, i) # 0

\* The same for a value of any kind: end[j][m] is where it ends that which stands
\* at s[j].  "first" and "rest" are a list before its first element and after one.
ElementEnd(end, s, j) ==
    CASE s[j] = "x" -> j + 1
      [] s[j] = "[" -> end[j + 1]["first"]
      [] OTHER -> MessageEnd(s, j)
ListEnd(end, e) == IF e = 0 THEN 0 ELSE end[e]["rest"]
EndAt(end, s, j, m) ==
    IF j > Len(s) THEN 0
    ELSE CASE s[j] \in Space -> end[j + 1][m]
           [] s[j] = "]" -> IF m = "value" THEN 0 ELSE j + 1
           [] s[j] = "comma" -> IF m = "rest" THEN ListEnd(end, end[j + 1]["value"]) ELSE 0
           [] OTHER -> CASE m = "value" -> ElementEnd(end, s, j)
                         [] m = "first" -> ListEnd(end, ElementEnd(end, s, j))
                         [] m = "rest" -> 0
Ends(s) ==
    LET end[j \in 1 .. Len(s) + 1] == [m \in {"value", "first", "rest"} |-> EndAt(end, s, j, m)]
    IN  end
ValueEnd(s, i) == Ends(s)[i]["value"]

Spaces(s, i, j) == \A k \in i .. j : s[k] \in Space
Blank(s) == Spaces(s, 1, Len(s))
From(s, i) == SubSeq(s, i, Len(s))

\* Where the first piece from s[i] on is that is no space; Len(s) + 1 if none is.
NextUsed(s, i) ==
    CHOOSE j \in i .. Len(s) + 1 :
        /\ Spaces(s, i, j - 1)
        /\ j <= Len(s) => s[j] \notin Space

\* json.loads finds one value and nothing else.
Loads(s) == LET e == ValueEnd(s, 1) IN e # 0 /\ Spaces(s, e, Len(s))

------------------------------------------------------------------------------
\* "async for chunk in request.stream()"; a chunk may be empty.
Receive ==
    /\ step = "waiting"
    /\ \E chunk \in BoundedSeq(Pieces[ctype], MaxText - Len(text)) :
        /\ buffer' = buffer \o chunk
        /\ text' = text \o chunk
    /\ step' = "parsing"
    /\ UNCHANGED <<ctype, mode, cursor, yielded, dropped>>

\* A chunk is no UTF-8, or the payload ends within a character.
Undecodable ==
    /\ step = "waiting"
    /\ step' = "undecodable"
    /\ UNCHANGED <<ctype, mode, buffer, cursor, yielded, text, dropped>>

\* Mutant: no look at what the value is.
HandAnything(i, s, bad) == yielded' = Append(yielded, dropped + i) /\ step' = s

\* _decode_message of the value at buffer[i]; after it the generator is at s, or
\* at bad if it raises.
Hand(i, s, bad) ==
    IF MessageAt(buffer, i)
      THEN yielded' = Append(yielded, dropped + i) /\ step' = s
      ELSE UNCHANGED yielded /\ step' = bad

------------------------------------------------------------------------------
(* The JSON loop *)

AtWork == ctype = "json" /\ step = "parsing"

\* Each turn begins with the first piece that is no space.
Here == NextUsed(buffer, cursor + 1)
Exhausted == Here > Len(buffer)
Sees(piece) == ~Exhausted /\ buffer[Here] = piece
Advance == cursor' = Here

Turn == UNCHANGED <<ctype, buffer, text, dropped>>

\* "break": a buffer that is used up is dropped.
Break(c) ==
    /\ step' = "waiting"
    /\ IF c > 0 /\ c >= Len(buffer)
         THEN buffer' = <<>> /\ cursor' = 0 /\ dropped' = dropped + Len(buffer)
         ELSE cursor' = c /\ UNCHANGED <<buffer, dropped>>

UsedUp ==
    /\ AtWork /\ Exhausted
    /\ Break(Len(buffer))
    /\ UNCHANGED <<ctype, mode, yielded, text>>

OpenArray ==
    /\ AtWork /\ mode = "unknown" /\ Sees("[")
    /\ mode' = "array"
    /\ Advance
    /\ Turn /\ UNCHANGED <<step, yielded>>

CloseArray ==
    /\ AtWork /\ mode = "array" /\ Sees("]")
    /\ mode' = "done"
    /\ Advance
    /\ Turn /\ UNCHANGED <<step, yielded>>

\* Mutant: the cursor is not moved.
StayAtComma ==
    /\ AtWork /\ mode = "array" /\ Sees("comma")
    /\ Turn /\ UNCHANGED <<mode, cursor, step, yielded>>

\* Commas may be missing, and there may be more than one.
SkipComma ==
    /\ AtWork /\ mode = "array" /\ Sees("comma")
    /\ Advance
    /\ Turn /\ UNCHANGED <<mode, step, yielded>>

TrailingData ==
    /\ AtWork /\ mode = "done" /\ ~Exhausted
    /\ step' = "rejected"
    /\ cursor' = Here - 1
    /\ Turn /\ UNCHANGED <<mode, yielded>>

AtValue ==
    /\ AtWork /\ ~Exhausted
    /\ \/ mode = "unknown" /\ ~Sees("[")
       \/ mode = "single"
       \/ mode = "array" /\ ~Sees("]") /\ ~Sees("comma")

Decode ==
    /\ AtValue
    /\ ValueEnd(buffer, Here) # 0
    /\ Hand(Here, "parsing", "rejected")
    /\ cursor' = ValueEnd(buffer, Here) - 1
    /\ mode' = IF mode = "array" THEN "array" ELSE "done"
    /\ Turn

\* Mutant: the error is raised again at once.
RefuseNow ==
    /\ AtValue
    /\ ValueEnd(buffer, Here) = 0
    /\ step' = "rejected"
    /\ Turn /\ UNCHANGED <<mode, cursor, yielded>>

\* raw_decode raises: the value is incomplete, or it is none.
NotYet ==
    /\ AtValue
    /\ ValueEnd(buffer, Here) = 0
    /\ Break(Here - 1)
    /\ mode' = IF mode = "unknown" THEN "single" ELSE mode
    /\ UNCHANGED <<ctype, yielded, text>>

\* The payload is over.
Incomplete == mode # "done" /\ ~Exhausted

End ==
    /\ ctype = "json" /\ step = "waiting"
    /\ step' = IF Incomplete THEN "incomplete" ELSE "accepted"
    /\ UNCHANGED <<mode, cursor, yielded>>
    /\ Turn

------------------------------------------------------------------------------
(* The NDJSON loop *)

\* What the buffer holds up to its place n is a line.
Line(n, s, bad) ==
    LET line == SubSeq(buffer, 1, n)
    IN  /\ IF Blank(line) THEN UNCHANGED yielded /\ step' = s
             ELSE IF Loads(line) THEN Hand(NextUsed(line, 1), s, bad)
             ELSE UNCHANGED yielded /\ step' = bad
        /\ buffer' = From(buffer, n + 1)
        /\ dropped' = dropped + n
        /\ UNCHANGED <<ctype, mode, cursor, text>>

HasLine == Contains(buffer, "nl")
FirstEnd == SelectInSeq(buffer, LAMBDA p : p = "nl")

\* Mutant: one line per chunk.
OneLine ==
    /\ ctype = "ndjson" /\ step = "parsing" /\ HasLine
    /\ Line(FirstEnd, "waiting", "rejected")

NextLine ==
    /\ ctype = "ndjson" /\ step = "parsing" /\ HasLine
    /\ Line(FirstEnd, "parsing", "rejected")

NoLine ==
    /\ ctype = "ndjson" /\ step = "parsing" /\ ~HasLine
    /\ step' = "waiting"
    /\ UNCHANGED <<mode, cursor, yielded>>
    /\ Turn

LastLine ==
    /\ ctype = "ndjson" /\ step = "waiting"
    /\ Line(Len(buffer), "accepted", "incomplete")

------------------------------------------------------------------------------
Parse ==
    \/ UsedUp \/ OpenArray \/ CloseArray \/ SkipComma \/ TrailingData \/ Decode \/ NotYet
    \/ NextLine \/ NoLine

Next == Receive \/ Undecodable \/ Parse \/ End \/ LastLine

Spec == Init /\ [][Next]_vars

\* The generator runs while it has a chunk; nobody has to send one.
FairSpec == Spec /\ WF_vars(Parse)

------------------------------------------------------------------------------
(* What a whole text says, without a cursor, a mode or chunks. *)

\* Messages, spaces and commas, from place i to place j.
Listed(s, i, j) ==
    \A k \in i .. j : \/ s[k] \in Space \cup {"comma"}
                      \/ MessageAt(s, k)
                      \/ k > i /\ MessageEnd(s, k - 1) = k + 1

\* Message or blank, from place i to place j.
Item(s, i, j) ==
    \/ Spaces(s, i, j)
    \/ \E k \in i .. j :
          MessageAt(s, k) /\ Spaces(s, i, k - 1) /\ Spaces(s, MessageEnd(s, k), j)

IsList(s) == NextUsed(s, 1) <= Len(s) /\ s[NextUsed(s, 1)] = "["

\* The lines before place i, each with its end.
LineEnds(s) == {k \in DOMAIN s : s[k] = "nl"}
LineStart(s, i) ==
    CHOOSE a \in 1 .. i :
        /\ a = 1 \/ a - 1 \in LineEnds(s)
        /\ \A k \in a .. i - 1 : k \notin LineEnds(s)
LinesGood(s, i) == \A e \in LineEnds(s) : e < i => Item(s, LineStart(s, e), e)

\* Where the messages are that come before anything that is wrong.  One of an
\* NDJSON payload counts when its line has ended, or the payload has.
Messages(s, ended) ==
    {k \in DOMAIN s :
        /\ MessageAt(s, k)
        /\ IF ctype = "json"
             THEN IF IsList(s) THEN Listed(s, NextUsed(s, 1) + 1, k - 1) ELSE k = NextUsed(s, 1)
             ELSE /\ LinesGood(s, k)
                  /\ LET ends == {e \in LineEnds(s) : e > k} \cup IF ended THEN {Len(s)} ELSE {}
                     IN  \E e \in ends : Item(s, LineStart(s, k), e)}

\* What has been yielded is these, each once and in their order.
YieldedAre(places) ==
    /\ ToSet(yielded) = places
    /\ \A i, j \in DOMAIN yielded : i < j => yielded[i] < yielded[j]

\* Nothing, a message, or a list that may lack its commas and its end.
Acceptable(s) ==
    IF ctype = "ndjson"
      THEN LinesGood(s, Len(s) + 1) /\ Item(s, LineStart(s, Len(s) + 1), Len(s))
      ELSE \/ Item(s, 1, Len(s))
           \/ /\ IsList(s)
              /\ \E e \in NextUsed(s, 1) + 1 .. Len(s) + 1 :
                    /\ Listed(s, NextUsed(s, 1) + 1, e - 1)
                    /\ e <= Len(s) => s[e] = "]"
                    /\ Spaces(s, e + 1, Len(s))

------------------------------------------------------------------------------
\* Whenever the generator waits for a chunk, or has refused the payload, it has
\* yielded every message that has arrived whole, in order, once, wherever the
\* chunks were cut (server.py:151-196; README.md:16, "parsed incrementally").
AsSoonAsComplete ==
    step \in {"waiting", "undecodable"} \cup Refused => YieldedAre(Messages(text, FALSE))

\* Nothing else is ever yielded, even of a payload that turns out to be wrong
\* (server.py:133-143, 151-200).
NothingElse == \E n \in 0 .. Len(text) : YieldedAre({k \in Messages(text, TRUE) : k <= n})

\* The buffer, the cursor and what has been yielded agree with the text.
Consistent == TypeOK /\ NothingElse

\* The verdict is that of the text, not of its chunks.  A payload is refused before
\* its end only if nothing that may still arrive could make it good, and at its end
\* only if it is not; what was skipped over in an accepted one was never part of a
\* message (server.py:178-206, 141-143).
Continuations == {text \o rest : rest \in BoundedSeq(Pieces[ctype], MaxText - Len(text))}
SameVerdict ==
    /\ step = "accepted" => Acceptable(text) /\ YieldedAre(Messages(text, TRUE))
    /\ step = "incomplete" => ~Acceptable(text)
    /\ step = "rejected" => \A whole \in Continuations : ~Acceptable(whole)

\* What the JSON library takes for a message or a list of messages is accepted,
\* every message of it (server.py:160-206).
AllOfIt == {k \in DOMAIN text : MessageAt(text, k)}
MessagesOnly == \A k \in DOMAIN text : text[k] # "x" /\ (text[k] = "[" => k = NextUsed(text, 1))
TakesWellFormed ==
    ctype = "json" /\ Loads(text) /\ MessagesOnly =>
        /\ step \notin Refused
        /\ step = "accepted" => YieldedAre(AllOfIt)

\* The verdict is the one the whole text deserves: wrong payloads are refused, and
\* those that json.loads() would take are taken (server.py:141-143, 160-206).
RightVerdict == SameVerdict /\ TakesWellFormed

\* "while True" comes to an end with every chunk (server.py:151).
ComesBack == step = "parsing" ~> step # "parsing"
==============================================================================
