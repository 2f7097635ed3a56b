------------------------ MODULE GatewayStreamProofs ------------------------
(***************************************************************************)
(* StreamIsFaithful of Gateway, for every number of lines and every way to *)
(* cut their text into chunks.  The text of the lines is indexed by where  *)
(* each of them ends; the inductive invariant says that the converter has  *)
(* come to a position of it: it has translated the lines that are complete *)
(* there and keeps the beginning of the next.  A piece moves the position  *)
(* by one, a chunk by as many pieces as it has.                            *)
(***************************************************************************)
EXTENDS GatewayProofs, FiniteSetTheorems

-----------------------------------------------------------------------------
(* Sequences put together *)

\* flatten[i], as FlattenSeq computes it, for every i up to n.
IsFlat(flat, parts, n) ==
  flat = [i \in 1 .. n |-> IF i = 1 THEN parts[i] ELSE flat[i - 1] \o parts[i]]

\* A step of the walk.
LEMMA FlatStep ==
  ASSUME NEW parts, NEW n \in Nat, NEW flat, IsFlat(flat, parts, n), NEW i \in 1 .. n
  PROVE  i # 1 => flat[i] = flat[i - 1] \o parts[i]
BY DEF IsFlat

\* Any parts can be put together.
LEMMA FlatExists ==
  ASSUME NEW parts, NEW n \in Nat
  PROVE  \E flat : IsFlat(flat, parts, n)
<1> DEFINE stuck == {k \in Nat : ~ \E flat : IsFlat(flat, parts, k)}
<1>1. SUFFICES ASSUME stuck # {} PROVE FALSE
  OBVIOUS
<1>2. PICK k \in stuck : \A j \in stuck : k <= j
  BY <1>1, LeastNumber
<1>3. CASE k = 0
  <2>1. IsFlat([i \in 1 .. 0 |-> << >>], parts, 0)
    BY DEF IsFlat
  <2> QED BY <1>2, <1>3, <2>1
<1>4. CASE k > 0
  <2>1. k - 1 \in Nat /\ k - 1 \notin stuck
    BY <1>2, <1>4
  <2>2. PICK flat : IsFlat(flat, parts, k - 1)
    BY <2>1
  <2> DEFINE last == IF k = 1 THEN parts[k] ELSE flat[k - 1] \o parts[k]
             longer == [i \in 1 .. k |-> IF i = k THEN last ELSE flat[i]]
  <2>3. ASSUME NEW i \in 1 .. k
        PROVE  longer[i] = IF i = 1 THEN parts[i] ELSE longer[i - 1] \o parts[i]
    <3>1. CASE i = k
      <4>1. i # 1 => longer[i - 1] = flat[i - 1]
        BY <1>2, <3>1
      <4> QED BY <3>1, <4>1
    <3>2. CASE i # k
      <4>1. i \in 1 .. k - 1 /\ longer[i] = flat[i]
        BY <1>2, <3>2
      <4>2. flat[i] = IF i = 1 THEN parts[i] ELSE flat[i - 1] \o parts[i]
        BY <2>2, <4>1 DEF IsFlat
      <4>3. i # 1 => longer[i - 1] = flat[i - 1]
        BY <1>2, <3>2
      <4> QED BY <4>1, <4>2, <4>3
    <3> QED BY <3>1, <3>2
  <2>4. IsFlat(longer, parts, k)
    BY <2>3 DEF IsFlat
  <2> QED BY <1>2, <2>4
<1> QED BY <1>2, <1>3, <1>4

\* FlattenSeq ends where such a walk does.
LEMMA FlattenIsWalked ==
  ASSUME NEW parts, Len(parts) \in Nat, Len(parts) # 0
  PROVE  \E flat : IsFlat(flat, parts, Len(parts)) /\ Stream!FlattenSeq(parts) = flat[Len(parts)]
<1>1. \E flat : IsFlat(flat, parts, Len(parts))
  BY FlatExists
<1> DEFINE flat == CHOOSE g : g = [i \in 1 .. Len(parts) |->
                     IF i = 1 THEN parts[i] ELSE g[i - 1] \o parts[i]]
<1>2. IsFlat(flat, parts, Len(parts))
  BY <1>1, Zenon DEF IsFlat
<1>3. Stream!FlattenSeq(parts) = flat[Len(parts)]
  BY DEF Stream!FlattenSeq
<1> QED BY <1>2, <1>3

\* Two walks agree as far as their parts do.
LEMMA FlatsAgree ==
  ASSUME NEW parts, NEW more, NEW f, NEW g, NEW m \in Nat, NEW n \in Nat, m <= n,
         IsFlat(f, parts, m), IsFlat(g, more, n), \A i \in 1 .. m : parts[i] = more[i]
  PROVE  \A i \in 1 .. m : f[i] = g[i]
<1> DEFINE apart == {i \in 1 .. m : f[i] # g[i]}
<1>1. SUFFICES ASSUME apart # {} PROVE FALSE
  OBVIOUS
<1>2. PICK k \in apart : \A j \in apart : k <= j
  <2>1. apart \subseteq Nat
    OBVIOUS
  <2> HIDE DEF apart
  <2> QED BY <1>1, <2>1, LeastNumber
<1>3. k \in 1 .. m /\ k \in 1 .. n
  BY <1>2
<1>4. f[k] = IF k = 1 THEN parts[k] ELSE f[k - 1] \o parts[k]
  BY <1>3 DEF IsFlat
<1>5. g[k] = IF k = 1 THEN more[k] ELSE g[k - 1] \o more[k]
  BY <1>3 DEF IsFlat
<1>6. k # 1 => f[k - 1] = g[k - 1]
  <2>1. ASSUME k # 1 PROVE k - 1 \in 1 .. m /\ k - 1 \notin apart
    BY <1>2, <1>3, <2>1
  <2> QED BY <2>1
<1>7. f[k] = g[k]
  BY <1>3, <1>4, <1>5, <1>6
<1> QED BY <1>2, <1>7

\* One part more goes to the end.
LEMMA FlattenAppend ==
  ASSUME NEW S, NEW parts \in Seq(Seq(S)), NEW part \in Seq(S)
  PROVE  Stream!FlattenSeq(Append(parts, part)) = Stream!FlattenSeq(parts) \o part
<1> DEFINE more == Append(parts, part)
<1>1. Len(more) = Len(parts) + 1 /\ Len(parts) \in Nat
  OBVIOUS
<1>2. more[Len(parts) + 1] = part /\ \A i \in 1 .. Len(parts) : parts[i] = more[i]
  OBVIOUS
<1> HIDE DEF more
<1>3. PICK g : IsFlat(g, more, Len(more)) /\ Stream!FlattenSeq(more) = g[Len(more)]
  BY <1>1, FlattenIsWalked
<1>4. CASE Len(parts) = 0
  <2>1. parts = << >>
    BY <1>4
  <2>2. g[1] = more[1]
    BY <1>1, <1>3, <1>4 DEF IsFlat
  <2>3. Stream!FlattenSeq(parts) = << >>
    BY <2>1 DEF Stream!FlattenSeq
  <2>4. << >> \o part = part
    OBVIOUS
  <2> QED BY <1>1, <1>2, <1>3, <1>4, <2>2, <2>3, <2>4 DEF more
<1>5. CASE Len(parts) # 0
  <2>1. PICK f : IsFlat(f, parts, Len(parts)) /\ Stream!FlattenSeq(parts) = f[Len(parts)]
    BY <1>1, <1>5, FlattenIsWalked
  <2> DEFINE n == Len(parts)
  <2>2. /\ n \in Nat /\ n + 1 \in Nat /\ n <= n + 1 /\ n \in 1 .. n
        /\ n + 1 \in 1 .. n + 1 /\ n + 1 # 1 /\ n + 1 - 1 = n
    BY <1>1, <1>5
  <2>3. IsFlat(f, parts, n) /\ IsFlat(g, more, n + 1) /\ \A i \in 1 .. n : parts[i] = more[i]
    BY <1>1, <1>2, <1>3, <2>1
  <2>4. Stream!FlattenSeq(parts) = f[n] /\ Stream!FlattenSeq(more) = g[n + 1] /\ more[n + 1] = part
    BY <1>1, <1>2, <1>3, <2>1
  <2> HIDE DEF n
  <2>5. f[n] = g[n]
    BY <2>2, <2>3, FlatsAgree
  <2>6. g[n + 1] = g[n] \o more[n + 1]
    <3> DEFINE m == n + 1
    <3>1. m \in Nat /\ m \in 1 .. m /\ m # 1 /\ m - 1 = n /\ IsFlat(g, more, m)
      BY <2>2, <2>3
    <3> HIDE DEF m
    <3>2. g[m] = g[m - 1] \o more[m]
      BY <3>1, FlatStep
    <3>3. g[m] = g[n] \o more[m]
      BY <3>1, <3>2
    <3> QED BY <3>3 DEF m
  <2> QED BY <2>4, <2>5, <2>6 DEF more
<1> QED BY <1>4, <1>5

\* Nothing put together is nothing.
LEMMA FlattenNothing ==
  Stream!FlattenSeq(<< >>) = << >>
BY DEF Stream!FlattenSeq

-----------------------------------------------------------------------------
(* The text of the upstream's lines *)

Breaks == {<<Stream!NewLine>>, <<Stream!Return, Stream!NewLine>>}

Pieces == {Stream!NewLine, Stream!Return, Stream!Data, Stream!Piece("comment", 0)}
            \cup {Stream!Piece(line, part) : line \in Stream!Payload, part \in {1, 2}}

\* A line with its line break.
Ended(line, break) == Stream!LinePieces(line) \o break

\* The events and the lines by name.
LEMMA EventNames ==
  /\ DOMAIN Stream!JsonEvents = {"text", "think", "tool", "last", "count", "error"}
  /\ Stream!Payload = {"text", "think", "tool", "last", "count", "error", "done", "bad"}
  /\ Stream!StreamLines = Stream!Payload \cup {"comment", "blank"}
<1>1. DOMAIN Stream!JsonEvents = {"text", "think", "tool", "last", "count", "error"}
  BY DEF Stream!JsonEvents
<1> QED BY <1>1 DEF Stream!Payload, Stream!StreamLines

\* The pieces of a line are one, or "data:" alone, or "data:" and a payload.
LEMMA LinePiecesAre ==
  ASSUME NEW line \in Stream!StreamLines
  PROVE  \/ line = "comment" /\ Stream!LinePieces(line) = <<Stream!Piece("comment", 0)>>
         \/ line = "blank" /\ Stream!LinePieces(line) = <<Stream!Data>>
         \/ /\ line \in Stream!Payload
            /\ Stream!LinePieces(line) = <<Stream!Data, Stream!Piece(line, 1), Stream!Piece(line, 2)>>
BY EventNames DEF Stream!LinePieces

\* No piece of a line is part of a line break.
LEMMA PiecesDiffer ==
  /\ Stream!NewLine # Stream!Return /\ Stream!NewLine # Stream!Data /\ Stream!Return # Stream!Data
  /\ Stream!Piece("comment", 0) \notin {Stream!NewLine, Stream!Return, Stream!Data}
  /\ \A line \in Stream!Payload, part \in {1, 2} :
       Stream!Piece(line, part) \notin {Stream!NewLine, Stream!Return, Stream!Data}
BY DEF Stream!NewLine, Stream!Return, Stream!Data, Stream!Piece

\* Short sequences.
LEMMA ShortSequences ==
  ASSUME NEW S, NEW a \in S, NEW b \in S, NEW c \in S
  PROVE  /\ <<a>> \in Seq(S) /\ Len(<<a>>) = 1 /\ <<a>>[1] = a
         /\ <<a, b>> \in Seq(S) /\ Len(<<a, b>>) = 2 /\ <<a, b>>[1] = a /\ <<a, b>>[2] = b
         /\ <<a, b, c>> \in Seq(S) /\ Len(<<a, b, c>>) = 3
         /\ <<a, b, c>>[1] = a /\ <<a, b, c>>[2] = b /\ <<a, b, c>>[3] = c
OBVIOUS

\* A line without its line break.
LEMMA PlainLine ==
  ASSUME NEW line \in Stream!StreamLines
  PROVE  /\ Stream!LinePieces(line) \in Seq(Pieces)
         /\ Len(Stream!LinePieces(line)) \in 1 .. 3
         /\ \A i \in 1 .. Len(Stream!LinePieces(line)) :
              Stream!LinePieces(line)[i] \notin {Stream!NewLine, Stream!Return}
<1> DEFINE Plain == Pieces \ {Stream!NewLine, Stream!Return}
<1>1. Stream!Data \in Plain /\ Stream!Piece("comment", 0) \in Plain
  BY PiecesDiffer DEF Pieces
<1>2. line \in Stream!Payload => Stream!Piece(line, 1) \in Plain /\ Stream!Piece(line, 2) \in Plain
  BY PiecesDiffer DEF Pieces
<1>3. Plain \subseteq Pieces /\ Plain \cap {Stream!NewLine, Stream!Return} = {}
  OBVIOUS
<1> HIDE DEF Plain
<1>4. Stream!LinePieces(line) \in Seq(Plain) /\ Len(Stream!LinePieces(line)) \in 1 .. 3
  <2>1. CASE Stream!LinePieces(line) = <<Stream!Piece("comment", 0)>>
    BY <1>1, <2>1, ShortSequences
  <2>2. CASE Stream!LinePieces(line) = <<Stream!Data>>
    BY <1>1, <2>2, ShortSequences
  <2>3. CASE /\ line \in Stream!Payload
             /\ Stream!LinePieces(line) = <<Stream!Data, Stream!Piece(line, 1), Stream!Piece(line, 2)>>
    BY <1>1, <1>2, <2>3, ShortSequences
  <2> QED BY <2>1, <2>2, <2>3, LinePiecesAre
<1> QED BY <1>3, <1>4

\* The line breaks.
LEMMA BreaksAre ==
  ASSUME NEW break \in Breaks
  PROVE  /\ break \in Seq(Pieces) /\ Len(break) \in 1 .. 2
         /\ break[Len(break)] = Stream!NewLine
         /\ Len(break) = 2 => break[1] = Stream!Return
<1>1. Stream!NewLine \in Pieces /\ Stream!Return \in Pieces
  BY DEF Pieces
<1>2. CASE break = <<Stream!NewLine>>
  BY <1>1, <1>2, ShortSequences
<1>3. CASE break = <<Stream!Return, Stream!NewLine>>
  BY <1>1, <1>3, ShortSequences
<1> QED BY <1>2, <1>3 DEF Breaks

\* A line ends with its only new-line character.
LEMMA EndedLine ==
  ASSUME NEW line \in Stream!StreamLines, NEW break \in Breaks
  PROVE  /\ Ended(line, break) \in Seq(Pieces)
         /\ Len(Ended(line, break)) \in 2 .. 5
         /\ Len(Ended(line, break)) = Len(Stream!LinePieces(line)) + Len(break)
         /\ \A i \in 1 .. Len(Stream!LinePieces(line)) :
              Ended(line, break)[i] = Stream!LinePieces(line)[i]
         /\ \A i \in 1 .. Len(break) :
              Ended(line, break)[Len(Stream!LinePieces(line)) + i] = break[i]
         /\ \A i \in 1 .. Len(Ended(line, break)) :
              Ended(line, break)[i] = Stream!NewLine <=> i = Len(Ended(line, break))
<1> DEFINE pieces == Stream!LinePieces(line)
<1>1. /\ pieces \in Seq(Pieces) /\ Len(pieces) \in 1 .. 3
      /\ \A i \in 1 .. Len(pieces) : pieces[i] \notin {Stream!NewLine, Stream!Return}
  BY PlainLine
<1>2. /\ break \in Seq(Pieces) /\ Len(break) \in 1 .. 2
      /\ break[Len(break)] = Stream!NewLine
      /\ Len(break) = 2 => break[1] = Stream!Return
  BY BreaksAre
<1>3. Stream!NewLine # Stream!Return
  BY PiecesDiffer
<1>4. Ended(line, break) = pieces \o break
  BY DEF Ended
<1> HIDE DEF pieces
<1>5. /\ Ended(line, break) \in Seq(Pieces) /\ Len(Ended(line, break)) = Len(pieces) + Len(break)
      /\ \A i \in 1 .. Len(pieces) : Ended(line, break)[i] = pieces[i]
      /\ \A i \in 1 .. Len(break) : Ended(line, break)[Len(pieces) + i] = break[i]
  BY <1>1, <1>2, <1>4
<1> DEFINE m == Len(pieces)
           n == Len(break)
           all == Ended(line, break)
<1>6. /\ m \in 1 .. 3 /\ n \in 1 .. 2 /\ Len(all) = m + n
      /\ \A i \in 1 .. m : all[i] = pieces[i] /\ pieces[i] # Stream!NewLine
      /\ \A i \in 1 .. n : all[m + i] = break[i]
      /\ break[n] = Stream!NewLine /\ (n = 2 => break[1] # Stream!NewLine)
  BY <1>1, <1>2, <1>3, <1>5
<1> HIDE DEF m, n, all
<1>7. ASSUME NEW i \in 1 .. m + n
      PROVE  all[i] = Stream!NewLine <=> i = m + n
  <2>1. CASE i <= m
    <3>1. i \in 1 .. m /\ i # m + n
      BY <1>6, <2>1
    <3> QED BY <1>6, <3>1
  <2>2. CASE i = m + 1
    <3>1. all[i] = break[1]
      BY <1>6, <2>2
    <3>2. n = 1 \/ n = 2
      BY <1>6
    <3> QED BY <1>6, <2>2, <3>1, <3>2
  <2>3. CASE i = m + 2
    <3>1. n = 2
      BY <1>6, <2>3
    <3> QED BY <1>6, <2>3, <3>1
  <2> QED BY <1>6, <2>1, <2>2, <2>3
<1>8. Len(all) \in 2 .. 5
  BY <1>6
<1> QED BY <1>5, <1>6, <1>7, <1>8 DEF pieces, m, n, all

\* One more line goes to the end of the text.
LEMMA TextAppend ==
  ASSUME NEW lines \in Seq(Stream!StreamLines), NEW line \in Stream!StreamLines, NEW break \in Breaks
  PROVE  Stream!TextOf(Append(lines, line), break) = Stream!TextOf(lines, break) \o Ended(line, break)
<1> DEFINE parts(ls) == [i \in DOMAIN ls |-> Ended(ls[i], break)]
<1>1. \A i \in 1 .. Len(lines) : Ended(lines[i], break) \in Seq(Pieces)
  BY EndedLine
<1>2. parts(lines) \in Seq(Seq(Pieces))
  BY <1>1
<1>3. Ended(line, break) \in Seq(Pieces)
  BY EndedLine
<1>4. parts(Append(lines, line)) = Append(parts(lines), Ended(line, break))
  OBVIOUS
<1>5. Stream!TextOf(Append(lines, line), break) = Stream!FlattenSeq(parts(Append(lines, line)))
  BY DEF Stream!TextOf, Ended
<1>6. Stream!TextOf(lines, break) = Stream!FlattenSeq(parts(lines))
  BY DEF Stream!TextOf, Ended
<1> HIDE DEF parts
<1> QED BY <1>2, <1>3, <1>4, <1>5, <1>6, FlattenAppend

\* No lines have no text.
LEMMA TextOfNothing ==
  ASSUME NEW break
  PROVE  Stream!TextOf(<< >>, break) = << >>
<1>1. [i \in DOMAIN << >> |-> Stream!LinePieces(<< >>[i]) \o break] = << >>
  OBVIOUS
<1> QED BY <1>1, FlattenNothing DEF Stream!TextOf

(***************************************************************************)
(* Where the lines are in the text: line k of the text goes from after     *)
(* ends[k - 1] to ends[k].                                                 *)
(***************************************************************************)
IsText(text, lines, break, ends) ==
  /\ text \in Seq(Pieces)
  /\ ends \in [0 .. Len(lines) -> Nat] /\ ends[0] = 0
  /\ Len(text) = ends[Len(lines)]
  /\ \A k \in 1 .. Len(lines) :
       /\ ends[k] = ends[k - 1] + Len(Ended(lines[k], break))
       /\ \A j \in 1 .. Len(Ended(lines[k], break)) :
            text[ends[k - 1] + j] = Ended(lines[k], break)[j]

\* The text of no lines.
LEMMA NoText ==
  ASSUME NEW break
  PROVE  IsText(<< >>, << >>, break, [k \in {0} |-> 0])
BY DEF IsText

\* Every line has an end of its own.
LEMMA EndsIncrease ==
  ASSUME NEW lines \in Seq(Stream!StreamLines), NEW break \in Breaks,
         NEW text, NEW ends, IsText(text, lines, break, ends),
         NEW i \in 0 .. Len(lines), NEW j \in 0 .. Len(lines), i < j
  PROVE  ends[i] < ends[j]
<1> DEFINE low == {k \in 0 .. Len(lines) : i < k /\ ~(ends[i] < ends[k])}
<1>1. SUFFICES ASSUME low # {} PROVE FALSE
  OBVIOUS
<1>2. PICK k \in low : \A h \in low : k <= h
  <2>1. low \subseteq Nat
    OBVIOUS
  <2> HIDE DEF low
  <2> QED BY <1>1, <2>1, LeastNumber
<1>3. k \in 1 .. Len(lines) /\ k - 1 \in 0 .. Len(lines) /\ i <= k - 1
  BY <1>2
<1>4. Len(Ended(lines[k], break)) \in 2 .. 5
  BY <1>3, EndedLine
<1>5. ends[k] = ends[k - 1] + Len(Ended(lines[k], break)) /\ ends \in [0 .. Len(lines) -> Nat]
  BY <1>3 DEF IsText
<1>6. ends[k - 1] < ends[k] /\ ends[k - 1] \in Nat /\ ends[i] \in Nat /\ ends[k] \in Nat
  <2>1. ends[k - 1] \in Nat /\ ends[i] \in Nat /\ ends[k] \in Nat
    BY <1>3, <1>5
  <2> QED BY <1>4, <1>5, <2>1
<1>7. k - 1 \notin low
  BY <1>2, <1>3
<1>8. i = k - 1 \/ ends[i] < ends[k - 1]
  BY <1>3, <1>7
<1>9. ends[i] < ends[k]
  BY <1>6, <1>8
<1> QED BY <1>2, <1>9

\* The lines of a text stay where they are when another one is written.
LEMMA TextGrows ==
  ASSUME NEW lines \in Seq(Stream!StreamLines), NEW line \in Stream!StreamLines, NEW break \in Breaks,
         NEW text, NEW ends, IsText(text, lines, break, ends)
  PROVE  \E longer : /\ IsText(text \o Ended(line, break), Append(lines, line), break, longer)
                     /\ \A k \in 0 .. Len(lines) : longer[k] = ends[k]
                     /\ longer[Len(lines) + 1] = ends[Len(lines)] + Len(Ended(line, break))
<1> DEFINE n == Len(lines)
           last == Ended(line, break)
           longer == [k \in 0 .. n + 1 |-> IF k = n + 1 THEN ends[n] + Len(last) ELSE ends[k]]
           grown == Append(lines, line)
           whole == text \o last
<1>1. n \in Nat /\ Len(grown) = n + 1 /\ grown[n + 1] = line /\ \A k \in 1 .. n : grown[k] = lines[k]
  OBVIOUS
<1>2. last \in Seq(Pieces) /\ Len(last) \in Nat
  BY EndedLine
<1>3. /\ text \in Seq(Pieces) /\ ends \in [0 .. n -> Nat] /\ ends[0] = 0 /\ Len(text) = ends[n]
      /\ \A k \in 1 .. n : ends[k] = ends[k - 1] + Len(Ended(lines[k], break))
      /\ \A k \in 1 .. n : \A j \in 1 .. Len(Ended(lines[k], break)) :
            text[ends[k - 1] + j] = Ended(lines[k], break)[j]
  BY DEF IsText
<1> HIDE DEF n, last
<1>4. /\ whole \in Seq(Pieces) /\ Len(whole) = Len(text) + Len(last)
      /\ \A i \in 1 .. Len(text) : whole[i] = text[i]
      /\ \A j \in 1 .. Len(last) : whole[Len(text) + j] = last[j]
  <2>1. text \in Seq(Pieces) /\ last \in Seq(Pieces)
    BY <1>2, <1>3
  <2>2. whole \in Seq(Pieces) /\ Len(whole) = Len(text) + Len(last)
    BY <2>1
  <2>3. \A i \in 1 .. Len(text) : whole[i] = text[i]
    BY <2>1
  <2>4. \A j \in 1 .. Len(last) : whole[Len(text) + j] = last[j]
    BY <2>1
  <2> QED BY <2>2, <2>3, <2>4
<1>5. /\ longer \in [0 .. n + 1 -> Nat] /\ longer[n + 1] = ends[n] + Len(last)
      /\ \A k \in 0 .. n : longer[k] = ends[k]
  BY <1>1, <1>2, <1>3
<1> HIDE DEF longer, grown, whole
<1>6. ASSUME NEW k \in 1 .. n + 1
      PROVE  /\ longer[k] = longer[k - 1] + Len(Ended(grown[k], break))
             /\ \A j \in 1 .. Len(Ended(grown[k], break)) :
                  whole[longer[k - 1] + j] = Ended(grown[k], break)[j]
  <2>1. CASE k = n + 1
    <3>1. Ended(grown[k], break) = last /\ longer[k - 1] = Len(text) /\ longer[k] = Len(text) + Len(last)
      BY <1>1, <1>3, <1>5, <2>1 DEF last
    <3> QED BY <1>2, <1>4, <3>1
  <2>2. CASE k \in 1 .. n
    <3> DEFINE own == Ended(lines[k], break)
    <3>1. grown[k] = lines[k] /\ longer[k - 1] = ends[k - 1] /\ longer[k] = ends[k]
      BY <1>1, <1>5, <2>2
    <3>2. ends[k] = ends[k - 1] + Len(own) /\ \A j \in 1 .. Len(own) : text[ends[k - 1] + j] = own[j]
      BY <1>3, <2>2
    <3>3. Len(own) \in Nat /\ ends[k - 1] \in Nat /\ ends[k] \in Nat
      <4>1. lines[k] \in Stream!StreamLines
        BY <2>2 DEF n
      <4>2. Len(own) \in Nat
        BY <4>1, EndedLine
      <4> QED BY <1>1, <1>3, <2>2, <4>2
    <3>4. ends[k] <= Len(text)
      <4>1. k < n => ends[k] < ends[n]
        BY <1>1, <2>2, EndsIncrease DEF n
      <4> QED BY <1>1, <1>3, <2>2, <3>3, <4>1
    <3> HIDE DEF own
    <3>5. ASSUME NEW j \in 1 .. Len(own)
          PROVE  whole[ends[k - 1] + j] = own[j]
      <4>1. ends[k - 1] + j \in 1 .. Len(text)
        BY <1>3, <3>2, <3>3, <3>4
      <4> QED BY <1>4, <3>2, <4>1
    <3> QED BY <3>1, <3>2, <3>5 DEF own
  <2> QED BY <1>1, <2>1, <2>2
<1>7. IsText(whole, grown, break, longer)
  BY <1>1, <1>3, <1>4, <1>5, <1>6 DEF IsText
<1> QED BY <1>5, <1>7 DEF whole, grown, n, last

-----------------------------------------------------------------------------
(* Positions in the text *)

\* After m pieces of a text, k lines are complete.
At(lines, ends, m, k) ==
  /\ k \in 0 .. Len(lines)
  /\ ends[k] <= m
  /\ IF k = Len(lines) THEN m = ends[k] ELSE m < ends[k + 1]

\* Every position is in a line, or at the end.
LEMMA Located ==
  ASSUME NEW lines \in Seq(Stream!StreamLines), NEW break \in Breaks,
         NEW text, NEW ends, IsText(text, lines, break, ends), NEW m \in 0 .. Len(text)
  PROVE  \E k : At(lines, ends, m, k)
<1> DEFINE n == Len(lines)
           later == {k \in 0 .. n : m < ends[k]}
<1>1. n \in Nat /\ ends \in [0 .. n -> Nat] /\ ends[0] = 0 /\ Len(text) = ends[n] /\ text \in Seq(Pieces)
  BY DEF IsText
<1> HIDE DEF n
<1>2. CASE later = {}
  <2>1. ends[n] \in Nat /\ n \in 0 .. n /\ m \in Nat
    BY <1>1
  <2>2. n \notin later
    BY <1>2
  <2>3. m = ends[n]
    BY <1>1, <2>1, <2>2
  <2>4. At(lines, ends, m, n)
    BY <2>1, <2>3 DEF At, n
  <2> QED BY <2>4
<1>3. CASE later # {}
  <2>1. PICK k \in later : \A j \in later : k <= j
    <3>1. later \subseteq Nat
      BY <1>1
    <3> HIDE DEF later
    <3> QED BY <1>3, <3>1, LeastNumber
  <2>2. k # 0
    BY <1>1, <2>1
  <2>3. k - 1 \in 0 .. n /\ k - 1 \notin later /\ k - 1 # n
    BY <1>1, <2>1, <2>2
  <2>4. ends[k - 1] <= m
    BY <1>1, <2>3
  <2>5. At(lines, ends, m, k - 1)
    BY <1>1, <2>1, <2>3, <2>4 DEF At, n
  <2> QED BY <2>5
<1> QED BY <1>2, <1>3

\* Where a line is.
LEMMA LineAt ==
  ASSUME NEW text, NEW lines, NEW break, NEW ends, IsText(text, lines, break, ends),
         Len(lines) \in Nat, NEW k \in 0 .. Len(lines) - 1
  PROVE  /\ ends[k + 1] = ends[k] + Len(Ended(lines[k + 1], break))
         /\ \A j \in 1 .. Len(Ended(lines[k + 1], break)) :
              text[ends[k] + j] = Ended(lines[k + 1], break)[j]
<1>1. k + 1 \in 1 .. Len(lines) /\ (k + 1) - 1 = k
  OBVIOUS
<1>2. /\ \A i \in 1 .. Len(lines) : ends[i] = ends[i - 1] + Len(Ended(lines[i], break))
      /\ \A i \in 1 .. Len(lines) : \A j \in 1 .. Len(Ended(lines[i], break)) :
            text[ends[i - 1] + j] = Ended(lines[i], break)[j]
  BY DEF IsText
<1>3. ends[k + 1] = ends[(k + 1) - 1] + Len(Ended(lines[k + 1], break))
  BY <1>1, <1>2
<1>4. \A j \in 1 .. Len(Ended(lines[k + 1], break)) :
        text[ends[(k + 1) - 1] + j] = Ended(lines[k + 1], break)[j]
  BY <1>1, <1>2
<1> QED BY <1>1, <1>3, <1>4

\* The next piece is one of the line it is in; a new-line character completes that line.
LEMMA NextPiece ==
  ASSUME NEW lines \in Seq(Stream!StreamLines), NEW break \in Breaks,
         NEW text, NEW ends, IsText(text, lines, break, ends),
         NEW m \in Nat, m < Len(text), NEW k, At(lines, ends, m, k)
  PROVE  /\ k \in 0 .. Len(lines) - 1
         /\ lines[k + 1] \in Stream!StreamLines
         /\ m + 1 - ends[k] \in 1 .. Len(Ended(lines[k + 1], break))
         /\ text[m + 1] = Ended(lines[k + 1], break)[m + 1 - ends[k]]
         /\ text[m + 1] = Stream!NewLine =>
              /\ m + 1 = ends[k + 1] /\ At(lines, ends, m + 1, k + 1)
         /\ text[m + 1] # Stream!NewLine => At(lines, ends, m + 1, k)
<1> DEFINE n == Len(lines)
<1>1. n \in Nat /\ ends \in [0 .. n -> Nat] /\ Len(text) = ends[n]
  BY DEF IsText
<1>2. k \in 0 .. n /\ ends[k] <= m /\ IF k = n THEN m = ends[k] ELSE m < ends[k + 1]
  BY DEF At
<1>3. k # n
  BY <1>1, <1>2
<1>4. k \in 0 .. n - 1 /\ k + 1 \in 1 .. n /\ m < ends[k + 1]
  BY <1>1, <1>2, <1>3
<1>5. lines[k + 1] \in Stream!StreamLines
  BY <1>4
<1> DEFINE own == Ended(lines[k + 1], break)
<1>6. /\ Len(own) \in 2 .. 5
      /\ \A i \in 1 .. Len(own) : own[i] = Stream!NewLine <=> i = Len(own)
  BY <1>5, EndedLine
<1>7. ends[k + 1] = ends[k] + Len(own) /\ \A j \in 1 .. Len(own) : text[ends[k] + j] = own[j]
  <2>1. Len(lines) \in Nat /\ k \in 0 .. Len(lines) - 1
    BY <1>4
  <2> QED BY <2>1, LineAt
<1>8. ends[k] \in Nat /\ ends[k + 1] \in Nat
  BY <1>1, <1>4
<1> HIDE DEF own
<1>9. m + 1 - ends[k] \in 1 .. Len(own) /\ ends[k] + (m + 1 - ends[k]) = m + 1
  BY <1>2, <1>4, <1>6, <1>7, <1>8
<1>10. text[m + 1] = own[m + 1 - ends[k]]
  BY <1>7, <1>9
<1>11. text[m + 1] = Stream!NewLine <=> m + 1 = ends[k + 1]
  BY <1>6, <1>7, <1>8, <1>9, <1>10
<1>12. ASSUME m + 1 = ends[k + 1]
       PROVE  At(lines, ends, m + 1, k + 1)
  <2>1. k + 1 < n => ends[k + 1] < ends[k + 1 + 1]
    BY <1>1, <1>4, EndsIncrease
  <2> QED BY <1>1, <1>4, <1>12, <2>1 DEF At
<1>13. ASSUME m + 1 # ends[k + 1]
       PROVE  At(lines, ends, m + 1, k)
  BY <1>1, <1>2, <1>4, <1>8, <1>13 DEF At
<1> HIDE DEF n
<1> QED BY <1>4, <1>5, <1>9, <1>10, <1>11, <1>12, <1>13 DEF own, n

\* The new-line characters up to a position are the ends of the complete lines.
LEMMA NewLinesCount ==
  ASSUME NEW lines \in Seq(Stream!StreamLines), NEW break \in Breaks,
         NEW text, NEW ends, IsText(text, lines, break, ends),
         NEW m \in 0 .. Len(text), NEW k, At(lines, ends, m, k)
  PROVE  Cardinality({i \in 1 .. m : text[i] = Stream!NewLine}) = k
<1> DEFINE n == Len(lines)
           news == {i \in 1 .. m : text[i] = Stream!NewLine}
           bij == [j \in 1 .. k |-> ends[j]]
<1>1. n \in Nat /\ ends \in [0 .. n -> Nat] /\ ends[0] = 0 /\ Len(text) = ends[n] /\ m \in Nat
  BY DEF IsText
<1>2. k \in 0 .. n /\ ends[k] <= m /\ IF k = n THEN m = ends[k] ELSE m < ends[k + 1]
  BY DEF At
<1>3. ASSUME NEW i \in news
      PROVE  \E j \in 1 .. k : i = ends[j]
  <2>1. i \in 1 .. m /\ text[i] = Stream!NewLine
    OBVIOUS
  <2>2. i - 1 \in 0 .. Len(text) /\ i - 1 < Len(text) /\ i - 1 + 1 = i /\ i - 1 \in Nat
    BY <1>1, <2>1
  <2>3. PICK h : At(lines, ends, i - 1, h)
    BY <2>2, Located
  <2>4. h \in 0 .. n - 1 /\ i = ends[h + 1]
    BY <2>1, <2>2, <2>3, NextPiece
  <2>5. ends[h + 1] \in Nat /\ ends[k] \in Nat
    BY <1>1, <1>2, <2>4
  <2>6. ~(k < h + 1)
    <3>1. SUFFICES ASSUME k < h + 1 PROVE FALSE
      OBVIOUS
    <3>2. k + 1 \in 0 .. n /\ h + 1 \in 0 .. n /\ k # n
      BY <1>1, <1>2, <2>4, <3>1
    <3>3. k + 1 = h + 1 \/ ends[k + 1] < ends[h + 1]
      BY <1>1, <1>2, <2>4, <3>1, <3>2, EndsIncrease
    <3>4. ends[k + 1] \in Nat
      BY <1>1, <3>2
    <3> QED BY <1>1, <1>2, <2>1, <2>4, <2>5, <3>2, <3>3, <3>4
  <2> QED BY <1>1, <1>2, <2>4, <2>6
<1>4. ASSUME NEW j \in 1 .. k
      PROVE  ends[j] \in news
  <2> DEFINE own == Ended(lines[j], break)
  <2>1. j \in 1 .. n /\ j - 1 \in 0 .. n /\ j \in 0 .. n /\ lines[j] \in Stream!StreamLines
    BY <1>1, <1>2
  <2>2. Len(own) \in 2 .. 5 /\ \A i \in 1 .. Len(own) : own[i] = Stream!NewLine <=> i = Len(own)
    BY <2>1, EndedLine
  <2>3. /\ ends[j] = ends[j - 1] + Len(own) /\ ends[j - 1] \in Nat /\ ends[j] \in Nat
        /\ \A i \in 1 .. Len(own) : text[ends[j - 1] + i] = own[i]
    BY <1>1, <2>1 DEF IsText
  <2> HIDE DEF own
  <2>4. text[ends[j]] = Stream!NewLine
    <3>1. Len(own) \in 1 .. Len(own)
      <4>1. PICK len \in 2 .. 5 : len = Len(own)
        BY <2>2
      <4>2. len \in 1 .. len
        OBVIOUS
      <4> QED BY <4>1, <4>2
    <3> QED BY <2>2, <2>3, <3>1
  <2>5. j < k => ends[j] < ends[k]
    BY <1>1, <1>2, <2>1, EndsIncrease
  <2>6. ends[j] <= m
    <3>1. ends[k] \in Nat
      BY <1>1, <1>2
    <3> QED BY <1>1, <1>2, <2>3, <2>5, <3>1
  <2>7. ends[j] >= 1
    <3>1. PICK len \in 2 .. 5 : len = Len(own)
      BY <2>2
    <3>2. PICK before \in Nat : before = ends[j - 1]
      BY <2>3
    <3>3. ends[j] = before + len
      BY <2>3, <3>1, <3>2
    <3> QED BY <3>3
  <2> QED BY <1>1, <2>3, <2>4, <2>6, <2>7
<1>5. ASSUME NEW i \in 1 .. k, NEW j \in 1 .. k, ends[i] = ends[j]
      PROVE  i = j
  <2>1. i \in 0 .. n /\ j \in 0 .. n /\ ends[i] \in Nat /\ ends[j] \in Nat
    BY <1>1, <1>2
  <2>2. i < j => ends[i] < ends[j]
    BY <2>1, EndsIncrease
  <2>3. j < i => ends[j] < ends[i]
    BY <2>1, EndsIncrease
  <2> QED BY <1>2, <1>5, <2>1, <2>2, <2>3
<1> HIDE DEF news
<1>6. bij \in Bijection(1 .. k, news)
  <2>1. bij \in [1 .. k -> news]
    BY <1>4
  <2>2. \A i, j \in 1 .. k : bij[i] = bij[j] => i = j
    BY <1>5
  <2>3. \A i \in news : \E j \in 1 .. k : bij[j] = i
    BY <1>3
  <2> HIDE DEF bij
  <2> QED BY <2>1, <2>2, <2>3 DEF Bijection, Injection, Surjection, IsInjective
<1>7. ExistsBijection(1 .. k, news) /\ k \in Nat
  BY <1>1, <1>2, <1>6 DEF ExistsBijection
<1> QED BY <1>7, FS_CountingElements DEF news

-----------------------------------------------------------------------------
(* What the converter should have written, line by line *)

\* A sequence of anything.
IsSequence(s) == \E S : s \in Seq(S)

\* Two sequences and an element are over a common set.
LEMMA CommonSet ==
  ASSUME NEW s, IsSequence(s), NEW t, IsSequence(t), NEW x
  PROVE  \E S : s \in Seq(S) /\ t \in Seq(S) /\ x \in S
<1>1. PICK S : s \in Seq(S)
  BY DEF IsSequence
<1>2. PICK T : t \in Seq(T)
  BY DEF IsSequence
<1>3. s \in Seq(S \cup T \cup {x}) /\ t \in Seq(S \cup T \cup {x})
  BY <1>1, <1>2
<1> QED BY <1>3

\* The empty sequence adds nothing.
LEMMA NothingAdded ==
  ASSUME NEW s, IsSequence(s)
  PROVE  s \o << >> = s /\ << >> \o s = s
BY DEF IsSequence

\* An element is appended.
LEMMA AppendIsSequence ==
  ASSUME NEW s, IsSequence(s), NEW x
  PROVE  IsSequence(Append(s, x)) /\ Append(s, x) = s \o <<x>>
<1>1. PICK S : s \in Seq(S) /\ x \in S
  BY CommonSet
<1>2. Append(s, x) \in Seq(S)
  BY <1>1
<1> QED BY <1>1, <1>2 DEF IsSequence

\* Two sequences make one.
LEMMA ConcatIsSequence ==
  ASSUME NEW s, IsSequence(s), NEW t, IsSequence(t)
  PROVE  IsSequence(s \o t)
<1>1. PICK S : s \in Seq(S) /\ t \in Seq(S)
  BY CommonSet
<1>2. s \o t \in Seq(S)
  BY <1>1
<1> QED BY <1>2 DEF IsSequence

\* What is appended to the second is appended to both.
LEMMA AppendedLast ==
  ASSUME NEW s, IsSequence(s), NEW t, IsSequence(t), NEW x
  PROVE  s \o Append(t, x) = Append(s \o t, x)
<1>1. PICK S : s \in Seq(S) /\ t \in Seq(S) /\ x \in S
  BY CommonSet
<1> QED BY <1>1

\* The first element of the second goes to the end of the first.
LEMMA HeadMoves ==
  ASSUME NEW s, IsSequence(s), NEW t, IsSequence(t), t # << >>
  PROVE  IsSequence(Tail(t)) /\ Append(s, Head(t)) \o Tail(t) = s \o t
<1>1. PICK S : s \in Seq(S) /\ t \in Seq(S)
  BY CommonSet
<1>2. Tail(t) \in Seq(S)
  BY <1>1
<1> QED BY <1>1, <1>2 DEF IsSequence

\* Parts put together are a sequence.
LEMMA FlattenIsSequence ==
  ASSUME NEW S, NEW parts \in Seq(Seq(S))
  PROVE  Stream!FlattenSeq(parts) \in Seq(S)
<1>1. CASE Len(parts) = 0
  <2>1. parts = << >>
    BY <1>1
  <2>2. Stream!FlattenSeq(parts) = << >>
    BY <2>1, FlattenNothing
  <2>3. << >> \in Seq(S)
    OBVIOUS
  <2> QED BY <2>2, <2>3
<1>2. CASE Len(parts) # 0
  <2>1. Len(parts) \in Nat
    OBVIOUS
  <2>2. PICK flat : IsFlat(flat, parts, Len(parts)) /\ Stream!FlattenSeq(parts) = flat[Len(parts)]
    BY <1>2, <2>1, FlattenIsWalked
  <2> DEFINE wrong == {i \in 1 .. Len(parts) : flat[i] \notin Seq(S)}
  <2>3. SUFFICES ASSUME wrong # {} PROVE FALSE
    BY <1>2, <2>1, <2>2
  <2>4. PICK k \in wrong : \A j \in wrong : k <= j
    <3>1. wrong \subseteq Nat
      OBVIOUS
    <3> HIDE DEF wrong
    <3> QED BY <2>3, <3>1, LeastNumber
  <2>5. k \in 1 .. Len(parts) /\ parts[k] \in Seq(S)
    BY <2>4
  <2>6. CASE k = 1
    <3>1. flat[k] = parts[k]
      BY <2>2, <2>5, <2>6 DEF IsFlat
    <3> QED BY <2>4, <2>5, <3>1
  <2>7. CASE k # 1
    <3>1. k - 1 \in 1 .. Len(parts) /\ k - 1 \notin wrong
      BY <2>4, <2>5, <2>7
    <3>2. flat[k] = flat[k - 1] \o parts[k]
      BY <2>1, <2>2, <2>5, <2>7, FlatStep
    <3>3. flat[k - 1] \in Seq(S)
      BY <3>1
    <3>4. flat[k] \in Seq(S)
      BY <2>5, <3>2, <3>3
    <3> QED BY <2>4, <3>4
  <2> QED BY <2>6, <2>7
<1> QED BY <1>1, <1>2

\* A line that says something adds its message.
LEMMA MessagesAppend ==
  ASSUME NEW lines \in Seq(Stream!StreamLines), NEW line \in Stream!StreamLines
  PROVE  /\ IsSequence(Stream!Messages(lines))
         /\ Stream!Messages(Append(lines, line)) =
              IF Stream!Speaks(line)
              THEN Append(Stream!Messages(lines), Stream!Message(Stream!JsonEvents[line].delta))
              ELSE Stream!Messages(lines)
<1> DEFINE Worded(l) == IF Stream!Speaks(l) THEN <<Stream!Message(Stream!JsonEvents[l].delta)>> ELSE << >>
           S == {Stream!Message(Stream!JsonEvents[l].delta) : l \in Stream!StreamLines}
           parts(ls) == [i \in DOMAIN ls |-> Worded(ls[i])]
<1>1. ASSUME NEW l \in Stream!StreamLines PROVE Worded(l) \in Seq(S)
  <2>1. Stream!Message(Stream!JsonEvents[l].delta) \in S
    OBVIOUS
  <2> HIDE DEF S
  <2> QED BY <2>1
<1>2. /\ Stream!Messages(lines) = Stream!FlattenSeq(parts(lines))
      /\ Stream!Messages(Append(lines, line)) = Stream!FlattenSeq(parts(Append(lines, line)))
  BY DEF Stream!Messages
<1> HIDE DEF S
<1>3. parts(lines) \in Seq(Seq(S))
  <2> HIDE DEF Worded
  <2> QED BY <1>1
<1>4. parts(Append(lines, line)) = Append(parts(lines), Worded(line))
  <2> HIDE DEF Worded
  <2> QED OBVIOUS
<1>5. Worded(line) \in Seq(S)
  BY <1>1
<1> HIDE DEF parts
<1>6. Stream!Messages(Append(lines, line)) = Stream!Messages(lines) \o Worded(line)
  <2> HIDE DEF Worded
  <2> QED BY <1>2, <1>3, <1>4, <1>5, FlattenAppend
<1>7. IsSequence(Stream!Messages(lines))
  BY <1>2, <1>3, FlattenIsSequence DEF IsSequence
<1> DEFINE said == Stream!Messages(lines)
           message == Stream!Message(Stream!JsonEvents[line].delta)
<1>8. said \o << >> = said /\ Append(said, message) = said \o <<message>>
  <2> HIDE DEF said, message
  <2> QED BY <1>7, NothingAdded, AppendIsSequence DEF said
<1>9. Stream!Messages(Append(lines, line)) = IF Stream!Speaks(line) THEN Append(said, message) ELSE said
  BY <1>6, <1>8
<1> QED BY <1>7, <1>9

\* The least and the greatest of some numbers are unique.
LEMMA ExtremesAreUnique ==
  ASSUME NEW T, T \subseteq Int, NEW x \in T
  PROVE  /\ (\A j \in T : x <= j) => (CHOOSE i \in T : \A j \in T : i <= j) = x
         /\ (\A j \in T : j <= x) => (CHOOSE i \in T : \A j \in T : j <= i) = x
<1>1. ASSUME \A j \in T : x <= j
      PROVE  (CHOOSE i \in T : \A j \in T : i <= j) = x
  <2> DEFINE y == CHOOSE i \in T : \A j \in T : i <= j
  <2>1. y \in T /\ \A j \in T : y <= j
    BY <1>1
  <2>2. x <= y /\ y <= x /\ x \in Int /\ y \in Int
    BY <1>1, <2>1
  <2> QED BY <2>2
<1>2. ASSUME \A j \in T : j <= x
      PROVE  (CHOOSE i \in T : \A j \in T : j <= i) = x
  <2> DEFINE y == CHOOSE i \in T : \A j \in T : j <= i
  <2>1. y \in T /\ \A j \in T : j <= y
    BY <1>2
  <2>2. x <= y /\ y <= x /\ x \in Int /\ y \in Int
    BY <1>2, <2>1
  <2> QED BY <2>2
<1> QED BY <1>1, <1>2

\* Numbers up to n have a greatest.
LEMMA GreatestNumber ==
  ASSUME NEW n \in Nat, NEW T, T \subseteq 1 .. n, T # {}
  PROVE  \E i \in T : \A j \in T : j <= i
<1> DEFINE back == {n - i : i \in T}
<1>1. back \subseteq Nat /\ back # {}
  <2>1. \A i \in T : i \in 1 .. n
    OBVIOUS
  <2>2. \A i \in T : n - i \in Nat
    BY <2>1
  <2> QED BY <2>2
<1>2. PICK b \in back : \A c \in back : b <= c
  <2> HIDE DEF back
  <2> QED BY <1>1, LeastNumber
<1>3. PICK i \in T : b = n - i
  BY <1>2
<1>4. ASSUME NEW j \in T PROVE j <= i
  <2>1. n - j \in back
    OBVIOUS
  <2>2. n - i <= n - j
    BY <1>2, <1>3, <2>1
  <2> HIDE DEF back
  <2>3. i \in 1 .. n /\ j \in 1 .. n
    OBVIOUS
  <2> QED BY <2>2, <2>3
<1> QED BY <1>3, <1>4

\* The value of the last line that has one, for values given by line.
LastValue(lines, values, default) ==
  LET said == {i \in DOMAIN lines : lines[i] \in DOMAIN values /\ values[lines[i]] # None}
  IN  IF said = {} THEN default
      ELSE values[lines[CHOOSE i \in said : \A j \in said : j <= i]]

\* Another line has the last word, if it has a value.
LEMMA LastValueAppend ==
  ASSUME NEW S, NEW lines \in Seq(S), NEW line \in S, NEW values, NEW default
  PROVE  LastValue(Append(lines, line), values, default) =
           IF line \in DOMAIN values /\ values[line] # None THEN values[line]
           ELSE LastValue(lines, values, default)
<1> DEFINE more == Append(lines, line)
           Worded(ls) == {i \in DOMAIN ls : ls[i] \in DOMAIN values /\ values[ls[i]] # None}
           n == Len(lines)
<1>1. /\ n \in Nat /\ DOMAIN lines = 1 .. n /\ DOMAIN more = 1 .. n + 1
      /\ more[n + 1] = line /\ \A i \in 1 .. n : more[i] = lines[i]
  OBVIOUS
<1> HIDE DEF more, n
<1>2. Worded(lines) \subseteq 1 .. n /\ Worded(more) \subseteq 1 .. n + 1
  BY <1>1
<1>3. CASE line \in DOMAIN values /\ values[line] # None
  <2>1. n + 1 \in Worded(more) /\ Worded(more) \subseteq Int /\ \A j \in Worded(more) : j <= n + 1
    BY <1>1, <1>2, <1>3
  <2>2. LastValue(more, values, default) = values[more[CHOOSE i \in Worded(more) : \A j \in Worded(more) : j <= i]]
    BY <2>1 DEF LastValue
  <2> HIDE DEF Worded
  <2>3. (CHOOSE i \in Worded(more) : \A j \in Worded(more) : j <= i) = n + 1
    BY <2>1, ExtremesAreUnique
  <2> QED BY <1>1, <1>3, <2>2, <2>3 DEF more
<1>4. CASE ~(line \in DOMAIN values /\ values[line] # None)
  <2>1. Worded(more) = Worded(lines)
    BY <1>1, <1>4
  <2>2. CASE Worded(lines) = {}
    BY <1>4, <2>1, <2>2 DEF LastValue, more
  <2>3. CASE Worded(lines) # {}
    <3> DEFINE x == CHOOSE i \in Worded(lines) : \A j \in Worded(lines) : j <= i
    <3>1. LastValue(more, values, default) = values[more[x]]
      BY <2>1, <2>3 DEF LastValue
    <3>2. LastValue(lines, values, default) = values[lines[x]]
      BY <2>3 DEF LastValue
    <3>3. x \in Worded(lines)
      <4>1. \E i \in Worded(lines) : \A j \in Worded(lines) : j <= i
        <5> HIDE DEF Worded
        <5> QED BY <1>1, <1>2, <2>3, GreatestNumber
      <4> HIDE DEF Worded
      <4> QED BY <4>1
    <3>4. more[x] = lines[x]
      <4> HIDE DEF Worded, x
      <4> QED BY <1>1, <1>2, <3>3
    <3> QED BY <1>4, <3>1, <3>2, <3>4 DEF more
  <2> QED BY <2>2, <2>3
<1> QED BY <1>3, <1>4

Reasons == [e \in DOMAIN Stream!JsonEvents |-> Stream!JsonEvents[e].reason]
Prompted == [e \in DOMAIN Stream!JsonEvents |-> Stream!JsonEvents[e].usage.prompt]
Completed == [e \in DOMAIN Stream!JsonEvents |-> Stream!JsonEvents[e].usage.completion]

\* What the terminator of some lines says.
FinishOf(lines) == LastValue(lines, Reasons, "stop")
CountsOf(lines) == [prompt     |-> LastValue(lines, Prompted, 0),
                   completion |-> LastValue(lines, Completed, 0)]

\* The line that has the last word has one.
LEMMA LastSays ==
  ASSUME NEW S, NEW lines \in Seq(S), NEW values,
         {i \in DOMAIN lines : lines[i] \in DOMAIN values /\ values[lines[i]] # None} # {}
  PROVE  LET said == {i \in DOMAIN lines : lines[i] \in DOMAIN values /\ values[lines[i]] # None}
         IN  lines[CHOOSE i \in said : \A j \in said : j <= i] \in DOMAIN values
<1> DEFINE said == {i \in DOMAIN lines : lines[i] \in DOMAIN values /\ values[lines[i]] # None}
<1>1. said \subseteq 1 .. Len(lines) /\ Len(lines) \in Nat /\ said # {}
  OBVIOUS
<1>2. \A i \in said : lines[i] \in DOMAIN values
  OBVIOUS
<1>3. \E i \in said : \A j \in said : j <= i
  <2> HIDE DEF said
  <2> QED BY <1>1, GreatestNumber
<1> HIDE DEF said
<1>4. (CHOOSE i \in said : \A j \in said : j <= i) \in said
  BY <1>3
<1>5. lines[CHOOSE i \in said : \A j \in said : j <= i] \in DOMAIN values
  BY <1>2, <1>4
<1> QED BY <1>5 DEF said

\* The terminator of some lines, by the last values.
LEMMA DoneForIs ==
  ASSUME NEW S, NEW lines \in Seq(S)
  PROVE  Stream!DoneFor(lines) = Stream!DoneItem(FinishOf(lines), CountsOf(lines))
<1>1. Stream!LastOf(lines, LAMBDA e : e.reason, "stop") = LastValue(lines, Reasons, "stop")
  <2> DEFINE said == {i \in DOMAIN lines : lines[i] \in DOMAIN Reasons /\ Reasons[lines[i]] # None}
             heard == {i \in DOMAIN lines : lines[i] \in DOMAIN Stream!JsonEvents
                                            /\ Stream!JsonEvents[lines[i]].reason # None}
             last == lines[CHOOSE i \in said : \A j \in said : j <= i]
  <2>1. said = heard
    BY DEF Reasons
  <2>2. Stream!LastOf(lines, LAMBDA e : e.reason, "stop") =
          IF heard = {} THEN "stop"
          ELSE Stream!JsonEvents[lines[CHOOSE i \in heard : \A j \in heard : j <= i]].reason
    BY DEF Stream!LastOf
  <2>3. LastValue(lines, Reasons, "stop") = IF said = {} THEN "stop" ELSE Reasons[last]
    BY DEF LastValue
  <2>4. said # {} => last \in DOMAIN Reasons
    BY LastSays
  <2> HIDE DEF said, heard
  <2>5. said # {} => Reasons[last] = Stream!JsonEvents[last].reason
    BY <2>4 DEF Reasons
  <2> QED BY <2>1, <2>2, <2>3, <2>5
<1>2. Stream!LastOf(lines, LAMBDA e : e.usage.prompt, 0) = LastValue(lines, Prompted, 0)
  <2> DEFINE said == {i \in DOMAIN lines : lines[i] \in DOMAIN Prompted /\ Prompted[lines[i]] # None}
             heard == {i \in DOMAIN lines : lines[i] \in DOMAIN Stream!JsonEvents
                                            /\ Stream!JsonEvents[lines[i]].usage.prompt # None}
             last == lines[CHOOSE i \in said : \A j \in said : j <= i]
  <2>1. said = heard
    BY DEF Prompted
  <2>2. Stream!LastOf(lines, LAMBDA e : e.usage.prompt, 0) =
          IF heard = {} THEN 0
          ELSE Stream!JsonEvents[lines[CHOOSE i \in heard : \A j \in heard : j <= i]].usage.prompt
    BY DEF Stream!LastOf
  <2>3. LastValue(lines, Prompted, 0) = IF said = {} THEN 0 ELSE Prompted[last]
    BY DEF LastValue
  <2>4. said # {} => last \in DOMAIN Prompted
    BY LastSays
  <2> HIDE DEF said, heard
  <2>5. said # {} => Prompted[last] = Stream!JsonEvents[last].usage.prompt
    BY <2>4 DEF Prompted
  <2> QED BY <2>1, <2>2, <2>3, <2>5
<1>3. Stream!LastOf(lines, LAMBDA e : e.usage.completion, 0) = LastValue(lines, Completed, 0)
  <2> DEFINE said == {i \in DOMAIN lines : lines[i] \in DOMAIN Completed /\ Completed[lines[i]] # None}
             heard == {i \in DOMAIN lines : lines[i] \in DOMAIN Stream!JsonEvents
                                            /\ Stream!JsonEvents[lines[i]].usage.completion # None}
             last == lines[CHOOSE i \in said : \A j \in said : j <= i]
  <2>1. said = heard
    BY DEF Completed
  <2>2. Stream!LastOf(lines, LAMBDA e : e.usage.completion, 0) =
          IF heard = {} THEN 0
          ELSE Stream!JsonEvents[lines[CHOOSE i \in heard : \A j \in heard : j <= i]].usage.completion
    BY DEF Stream!LastOf
  <2>3. LastValue(lines, Completed, 0) = IF said = {} THEN 0 ELSE Completed[last]
    BY DEF LastValue
  <2>4. said # {} => last \in DOMAIN Completed
    BY LastSays
  <2> HIDE DEF said, heard
  <2>5. said # {} => Completed[last] = Stream!JsonEvents[last].usage.completion
    BY <2>4 DEF Completed
  <2> QED BY <2>1, <2>2, <2>3, <2>5
<1> QED BY <1>1, <1>2, <1>3 DEF Stream!DoneFor, FinishOf, CountsOf

\* Another line may be the one that ends the stream.
LEMMA EndingAppend ==
  ASSUME NEW lines \in Seq(Stream!StreamLines), NEW line \in Stream!StreamLines
  PROVE  /\ Stream!Ending(lines) \subseteq 1 .. Len(lines)
         /\ Stream!Ending(Append(lines, line)) =
              Stream!Ending(lines) \cup (IF line \in {"done", "bad", "error"} THEN {Len(lines) + 1} ELSE {})
<1> DEFINE n == Len(lines)
           more == Append(lines, line)
<1>1. /\ n \in Nat /\ DOMAIN lines = 1 .. n /\ DOMAIN more = 1 .. n + 1
      /\ more[n + 1] = line /\ \A i \in 1 .. n : more[i] = lines[i]
  OBVIOUS
<1> HIDE DEF n, more
<1>2. \A i : i \in Stream!Ending(lines) <=> i \in 1 .. n /\ lines[i] \in {"done", "bad", "error"}
  BY <1>1 DEF Stream!Ending
<1>3. \A i : i \in Stream!Ending(more) <=> i \in 1 .. n + 1 /\ more[i] \in {"done", "bad", "error"}
  BY <1>1 DEF Stream!Ending
<1>4. \A i : i \in 1 .. n + 1 <=> i \in 1 .. n \/ i = n + 1
  BY <1>1
<1>5. n + 1 \notin 1 .. n
  BY <1>1
<1>6. Stream!Ending(more) = Stream!Ending(lines) \cup (IF line \in {"done", "bad", "error"} THEN {n + 1} ELSE {})
  BY <1>1, <1>2, <1>3, <1>4, <1>5
<1>7. Stream!Ending(lines) \subseteq 1 .. n
  BY <1>2
<1> QED BY <1>6, <1>7 DEF n, more

\* Once a line has ended the stream, nothing that follows counts.
LEMMA TranslationOver ==
  ASSUME NEW lines \in Seq(Stream!StreamLines), NEW line \in Stream!StreamLines,
         Stream!Ending(lines) # {}
  PROVE  Stream!Translation(Append(lines, line)) = Stream!Translation(lines)
<1> DEFINE n == Len(lines)
           more == Append(lines, line)
<1>1. /\ n \in Nat /\ Len(more) = n + 1 /\ \A i \in 1 .. n : more[i] = lines[i]
      /\ more \in Seq(Stream!StreamLines)
  OBVIOUS
<1>2. /\ Stream!Ending(lines) \subseteq 1 .. n
      /\ Stream!Ending(lines) \subseteq Stream!Ending(more)
      /\ Stream!Ending(more) \subseteq Stream!Ending(lines) \cup {n + 1}
  BY EndingAppend
<1>3. PICK e \in Stream!Ending(lines) : \A j \in Stream!Ending(lines) : e <= j
  <2>1. Stream!Ending(lines) \subseteq Nat
    BY <1>2
  <2> QED BY <2>1, LeastNumber
<1>4. e \in 1 .. n
  BY <1>2, <1>3
<1> HIDE DEF n, more
<1>5. \A j \in Stream!Ending(more) : e <= j
  BY <1>1, <1>2, <1>3, <1>4
<1>6. Stream!Ending(lines) \subseteq Int /\ Stream!Ending(more) \subseteq Int
  BY <1>1, <1>2
<1>7. /\ (CHOOSE i \in Stream!Ending(lines) : \A j \in Stream!Ending(lines) : i <= j) = e
      /\ (CHOOSE i \in Stream!Ending(more) : \A j \in Stream!Ending(more) : i <= j) = e
  BY <1>2, <1>3, <1>5, <1>6, ExtremesAreUnique
<1>8. Stream!Spoken(lines) = SubSeq(lines, 1, e - 1) /\ Stream!Spoken(more) = SubSeq(more, 1, e - 1)
  BY <1>2, <1>7 DEF Stream!Spoken
<1>9. SubSeq(more, 1, e - 1) = SubSeq(lines, 1, e - 1) /\ Len(SubSeq(lines, 1, e - 1)) = e - 1
  BY <1>1, <1>4 DEF n
<1> DEFINE spoken == SubSeq(lines, 1, e - 1)
<1> HIDE DEF spoken
<1>10. /\ Stream!Spoken(lines) = spoken /\ Stream!Spoken(more) = spoken
       /\ Len(spoken) = e - 1 /\ Len(spoken) + 1 = e
       /\ Len(spoken) < n /\ Len(spoken) < n + 1 /\ more[e] = lines[e]
  BY <1>1, <1>4, <1>8, <1>9 DEF spoken
<1> DEFINE end == CASE lines[e] = "done"  -> Stream!DoneFor(spoken)
                    [] lines[e] = "bad"   -> Stream!BrokenItem
                    [] lines[e] = "error" -> Stream!ErrorItem
<1>11. Stream!Translation(lines) = Stream!Messages(spoken) \o <<end>>
  BY <1>10 DEF Stream!Translation, n
<1>12. Stream!Translation(more) = Stream!Messages(spoken) \o <<end>>
  BY <1>1, <1>10 DEF Stream!Translation
<1> QED BY <1>11, <1>12 DEF more

\* While the stream goes on, the translation is that of the lines so far; the line that
\* ends it adds the terminator.
LEMMA TranslationOf ==
  ASSUME NEW lines \in Seq(Stream!StreamLines), Stream!Ending(lines) = {}
  PROVE  Stream!Translation(lines) = Stream!Messages(lines)
<1>1. Stream!Spoken(lines) = lines
  BY DEF Stream!Spoken
<1>2. ~(Len(lines) < Len(lines))
  OBVIOUS
<1>3. Stream!Translation(lines) = Stream!Messages(lines) \o << >>
  BY <1>1, <1>2 DEF Stream!Translation
<1>4. IsSequence(Stream!Messages(lines))
  <2>1. "done" \in Stream!StreamLines
    BY EventNames
  <2> QED BY <2>1, MessagesAppend
<1> QED BY <1>3, <1>4, NothingAdded

\* A line that ends the stream adds its terminator, and nothing else.
LEMMA TranslationEnds ==
  ASSUME NEW lines \in Seq(Stream!StreamLines), NEW line \in {"done", "bad", "error"},
         Stream!Ending(lines) = {}
  PROVE  Stream!Translation(Append(lines, line)) =
           Append(Stream!Messages(lines),
                  CASE line = "done"  -> Stream!DoneFor(lines)
                    [] line = "bad"   -> Stream!BrokenItem
                    [] line = "error" -> Stream!ErrorItem)
<1> DEFINE n == Len(lines)
           more == Append(lines, line)
<1>1. /\ n \in Nat /\ Len(more) = n + 1 /\ more[n + 1] = line /\ SubSeq(more, 1, n) = lines
  OBVIOUS
<1>2. line \in Stream!StreamLines
  BY EventNames
<1>3. Stream!Ending(more) = {n + 1}
  BY <1>2, EndingAppend
<1> HIDE DEF n, more
<1>4. (CHOOSE i \in {n + 1} : \A j \in {n + 1} : i <= j) = n + 1
  OBVIOUS
<1>5. Stream!Spoken(more) = lines
  BY <1>1, <1>3, <1>4 DEF Stream!Spoken
<1> DEFINE item == CASE line = "done"  -> Stream!DoneFor(lines)
                     [] line = "bad"   -> Stream!BrokenItem
                     [] line = "error" -> Stream!ErrorItem
<1>6. Stream!Translation(more) = Stream!Messages(lines) \o <<item>>
  BY <1>1, <1>5 DEF Stream!Translation, n
<1>7. IsSequence(Stream!Messages(lines))
  BY <1>2, MessagesAppend
<1> HIDE DEF item
<1>8. Append(Stream!Messages(lines), item) = Stream!Messages(lines) \o <<item>>
  BY <1>7, AppendIsSequence
<1> QED BY <1>6, <1>8 DEF item, more

-----------------------------------------------------------------------------
(* The converter, line by line *)

\* A state of the converter.
IsConverter(st) ==
  /\ DOMAIN st = {"input", "output", "usage", "finish_reason", "finished"}
  /\ st.finished \in BOOLEAN
  /\ IsSequence(st.output)

\* The converter has translated some lines, of which d has been delivered.
Converted(d, st, lines) ==
  /\ IsConverter(st)
  /\ d \o st.output = Stream!Translation(lines)
  /\ st.finished <=> Stream!Ending(lines) # {}
  /\ ~ st.finished => st.finish_reason = FinishOf(lines) /\ st.usage = CountsOf(lines)

\* Another item is written at the end.
LEMMA Enqueued ==
  ASSUME NEW d, IsSequence(d), NEW st, IsConverter(st), NEW item
  PROVE  /\ IsConverter(Stream!enqueue(st, item))
         /\ d \o Stream!enqueue(st, item).output = Append(d \o st.output, item)
         /\ Stream!enqueue(st, item).input = st.input
         /\ Stream!enqueue(st, item).usage = st.usage
         /\ Stream!enqueue(st, item).finish_reason = st.finish_reason
         /\ Stream!enqueue(st, item).finished = st.finished
<1>1. IsSequence(st.output) /\ st.finished \in BOOLEAN
  BY DEF IsConverter
<1>2. /\ IsSequence(Append(st.output, item))
      /\ d \o Append(st.output, item) = Append(d \o st.output, item)
  <2> DEFINE out == st.output
  <2>1. IsSequence(out)
    BY <1>1
  <2> HIDE DEF out
  <2>2. IsSequence(Append(out, item))
    BY <2>1, AppendIsSequence
  <2>3. d \o Append(out, item) = Append(d \o out, item)
    BY <2>1, AppendedLast
  <2> QED BY <2>2, <2>3 DEF out
<1>3. /\ DOMAIN Stream!enqueue(st, item) = DOMAIN st
      /\ Stream!enqueue(st, item).output = Append(st.output, item)
      /\ \A k \in DOMAIN st \ {"output"} : Stream!enqueue(st, item)[k] = st[k]
  BY DEF Stream!enqueue, IsConverter
<1> QED BY <1>1, <1>2, <1>3 DEF IsConverter

\* The end of the stream is noted.
LEMMA Finishes ==
  ASSUME NEW st, IsConverter(st)
  PROVE  LET after == [st EXCEPT !.finished = TRUE] IN
         /\ IsConverter(after)
         /\ after.output = st.output
         /\ after.finished
BY DEF IsConverter

\* A terminator is written at the end and finishes the stream.
Over(st, item) == [Stream!enqueue(st, item) EXCEPT !.finished = TRUE]

\* It is the last thing written.
LEMMA Terminated ==
  ASSUME NEW d, IsSequence(d), NEW st, IsConverter(st), NEW item
  PROVE  /\ IsConverter(Over(st, item))
         /\ d \o Over(st, item).output = Append(d \o st.output, item)
         /\ Over(st, item).finished
<1> DEFINE queued == Stream!enqueue(st, item)
<1>1. IsConverter(queued) /\ d \o queued.output = Append(d \o st.output, item)
  BY Enqueued
<1>2. Over(st, item) = [queued EXCEPT !.finished = TRUE]
  BY DEF Over
<1> HIDE DEF queued
<1>3. IsConverter(Over(st, item)) /\ Over(st, item).output = queued.output /\ Over(st, item).finished
  BY <1>1, <1>2, Finishes
<1> QED BY <1>1, <1>3

\* The only error event is "error".
LEMMA ErrorEvent ==
  ASSUME NEW e \in DOMAIN Stream!JsonEvents
  PROVE  /\ Stream!JsonEvents[e].error <=> e = "error"
         /\ Stream!JsonEvents["error"].delta = Stream!NoDelta
         /\ Stream!JsonEvents[e].usage =
              [prompt |-> Stream!JsonEvents[e].usage.prompt, completion |-> Stream!JsonEvents[e].usage.completion]
<1>1. e \in {"text", "think", "tool", "last", "count", "error"}
  BY EventNames
<1>2. Stream!JsonEvents["error"].delta = Stream!NoDelta
  BY DEF Stream!JsonEvents, Stream!Event
<1>3. Stream!JsonEvents["error"].error
  BY DEF Stream!JsonEvents, Stream!Event
<1>4. ~ Stream!JsonEvents["text"].error
  BY DEF Stream!JsonEvents, Stream!Event
<1>5. ~ Stream!JsonEvents["think"].error
  BY DEF Stream!JsonEvents, Stream!Event
<1>6. ~ Stream!JsonEvents["tool"].error
  BY DEF Stream!JsonEvents, Stream!Event
<1>7. ~ Stream!JsonEvents["last"].error
  BY DEF Stream!JsonEvents, Stream!Event
<1>8. ~ Stream!JsonEvents["count"].error
  BY DEF Stream!JsonEvents, Stream!Event
<1>9. /\ Stream!NoUsage = [prompt |-> Stream!NoUsage.prompt, completion |-> Stream!NoUsage.completion]
      /\ \A p, c : LET u == [prompt |-> p, completion |-> c] IN u = [prompt |-> u.prompt, completion |-> u.completion]
  BY DEF Stream!NoUsage
<1>10. \/ Stream!JsonEvents[e].usage = Stream!NoUsage
       \/ \E p, c : Stream!JsonEvents[e].usage = [prompt |-> p, completion |-> c]
  <2>1. Stream!JsonEvents["text"].usage = Stream!NoUsage
    BY DEF Stream!JsonEvents, Stream!Event
  <2>2. Stream!JsonEvents["think"].usage = Stream!NoUsage
    BY DEF Stream!JsonEvents, Stream!Event
  <2>3. Stream!JsonEvents["tool"].usage = Stream!NoUsage
    BY DEF Stream!JsonEvents, Stream!Event
  <2>4. Stream!JsonEvents["last"].usage = [prompt |-> 3, completion |-> None]
    BY DEF Stream!JsonEvents, Stream!Event
  <2>5. Stream!JsonEvents["count"].usage = [prompt |-> 4, completion |-> 5]
    BY DEF Stream!JsonEvents, Stream!Event
  <2>6. Stream!JsonEvents["error"].usage = Stream!NoUsage
    BY DEF Stream!JsonEvents, Stream!Event
  <2> QED BY <1>1, <2>1, <2>2, <2>3, <2>4, <2>5, <2>6
<1>11. Stream!JsonEvents[e].usage =
        [prompt |-> Stream!JsonEvents[e].usage.prompt, completion |-> Stream!JsonEvents[e].usage.completion]
  BY <1>9, <1>10
<1> QED BY <1>1, <1>2, <1>3, <1>4, <1>5, <1>6, <1>7, <1>8, <1>11

\* The counts of an event replace the ones before it.
LEMMA UsageCounts ==
  ASSUME NEW lines \in Seq(Stream!StreamLines), NEW e \in DOMAIN Stream!JsonEvents
  PROVE  /\ Stream!Counted(CountsOf(lines), Stream!JsonEvents[e].usage) = CountsOf(Append(lines, e))
         /\ (IF Stream!JsonEvents[e].reason # None THEN Stream!JsonEvents[e].reason
             ELSE FinishOf(lines)) = FinishOf(Append(lines, e))
<1> DEFINE p == Stream!JsonEvents[e].usage.prompt
           c == Stream!JsonEvents[e].usage.completion
           a == LastValue(lines, Prompted, 0)
           b == LastValue(lines, Completed, 0)
<1>0. e \in Stream!StreamLines
  BY EventNames
<1>1. LastValue(Append(lines, e), Prompted, 0) = IF p # None THEN p ELSE a
  <2>1. e \in DOMAIN Prompted /\ Prompted[e] = p
    BY DEF Prompted
  <2> QED BY <1>0, <2>1, LastValueAppend
<1>2. LastValue(Append(lines, e), Completed, 0) = IF c # None THEN c ELSE b
  <2>1. e \in DOMAIN Completed /\ Completed[e] = c
    BY DEF Completed
  <2> QED BY <1>0, <2>1, LastValueAppend
<1>3. LastValue(Append(lines, e), Reasons, "stop") =
        IF Stream!JsonEvents[e].reason # None THEN Stream!JsonEvents[e].reason
        ELSE LastValue(lines, Reasons, "stop")
  <2>1. e \in DOMAIN Reasons /\ Reasons[e] = Stream!JsonEvents[e].reason
    BY DEF Reasons
  <2> QED BY <1>0, <2>1, LastValueAppend
<1>4. Stream!JsonEvents[e].usage = [prompt |-> p, completion |-> c]
  BY ErrorEvent
<1>5. CountsOf(lines) = [prompt |-> a, completion |-> b]
  BY DEF CountsOf
<1>6. CountsOf(Append(lines, e)) = [prompt |-> IF p # None THEN p ELSE a, completion |-> IF c # None THEN c ELSE b]
  BY <1>1, <1>2 DEF CountsOf
<1> HIDE DEF p, c, a, b
<1>7. Stream!Counted([prompt |-> a, completion |-> b], [prompt |-> p, completion |-> c]) =
        [prompt |-> IF p # None THEN p ELSE a, completion |-> IF c # None THEN c ELSE b]
  BY DEF Stream!Counted
<1> QED BY <1>3, <1>4, <1>5, <1>6, <1>7 DEF FinishOf

\* A line that is no event says nothing of them.
LEMMA UsageStays ==
  ASSUME NEW lines \in Seq(Stream!StreamLines), NEW line \in Stream!StreamLines,
         line \notin DOMAIN Stream!JsonEvents
  PROVE  CountsOf(Append(lines, line)) = CountsOf(lines) /\ FinishOf(Append(lines, line)) = FinishOf(lines)
<1>1. line \notin DOMAIN Prompted /\ line \notin DOMAIN Completed /\ line \notin DOMAIN Reasons
  BY DEF Prompted, Completed, Reasons
<1>2. LastValue(Append(lines, line), Prompted, 0) = LastValue(lines, Prompted, 0)
  BY <1>1, LastValueAppend
<1>3. LastValue(Append(lines, line), Completed, 0) = LastValue(lines, Completed, 0)
  BY <1>1, LastValueAppend
<1>4. LastValue(Append(lines, line), Reasons, "stop") = LastValue(lines, Reasons, "stop")
  BY <1>1, LastValueAppend
<1> QED BY <1>2, <1>3, <1>4 DEF CountsOf, FinishOf

\* An event that is consumed is translated.
LEMMA EventConsumed ==
  ASSUME NEW lines \in Seq(Stream!StreamLines), NEW e \in DOMAIN Stream!JsonEvents,
         NEW d, IsSequence(d), NEW st, Converted(d, st, lines), ~ st.finished
  PROVE  LET after == Stream!consume_event(st, Stream!JsonEvents[e])
         IN  Converted(d, after, Append(lines, e)) /\ (~ after.finished => after.input = st.input)
<1> DEFINE event == Stream!JsonEvents[e]
           counted == [st EXCEPT !.usage = Stream!Counted(@, event.usage)]
           reasoned == [counted EXCEPT !.finish_reason = IF event.reason # None THEN event.reason ELSE @]
           message == Stream!Message(event.delta)
           after == Stream!consume_event(st, event)
           more == Append(lines, e)
<1>1. /\ IsConverter(st) /\ st.finished = FALSE /\ Stream!Ending(lines) = {}
      /\ d \o st.output = Stream!Translation(lines)
      /\ st.finish_reason = FinishOf(lines) /\ st.usage = CountsOf(lines)
  BY DEF Converted, IsConverter
<1>2. e \in Stream!StreamLines /\ more \in Seq(Stream!StreamLines)
  BY EventNames
<1>3. /\ IsConverter(counted) /\ counted.output = st.output /\ counted.input = st.input
      /\ counted.finished = FALSE /\ counted.usage = CountsOf(more) /\ counted.finish_reason = st.finish_reason
  BY <1>1, UsageCounts DEF IsConverter
<1> HIDE DEF counted
<1>4. /\ IsConverter(reasoned) /\ reasoned.output = st.output /\ reasoned.input = st.input
      /\ reasoned.finished = FALSE /\ reasoned.usage = CountsOf(more) /\ reasoned.finish_reason = FinishOf(more)
  BY <1>1, <1>3, UsageCounts DEF IsConverter
<1> HIDE DEF reasoned
<1>5. Stream!Translation(lines) = Stream!Messages(lines)
  BY <1>1, TranslationOf
<1>6. Stream!Ending(more) = IF e = "error" THEN {Len(lines) + 1} ELSE {}
  <2>1. e \in {"done", "bad", "error"} <=> e = "error"
    BY EventNames
  <2> QED BY <1>1, <1>2, <2>1, EndingAppend
<1>7. event.error <=> e = "error"
  BY ErrorEvent
<1>8. Stream!Speaks(e) <=> event.delta # Stream!NoDelta
  BY DEF Stream!Speaks
<1>9. after = CASE event.error -> [Stream!enqueue(counted, Stream!ErrorItem) EXCEPT !.finished = TRUE]
                [] ~ event.error /\ event.delta = Stream!NoDelta -> reasoned
                [] OTHER -> Stream!enqueue(reasoned, message)
  BY DEF Stream!consume_event, counted, reasoned
<1> HIDE DEF after, event, message
<1>10. CASE event.error
  <2>1. after = Over(counted, Stream!ErrorItem)
    BY <1>9, <1>10 DEF Over
  <2>2. IsConverter(after) /\ after.finished /\ d \o after.output = Append(d \o st.output, Stream!ErrorItem)
    <3>1. IsConverter(counted)
      BY <1>3
    <3>2. IsConverter(after) /\ after.finished /\ d \o after.output = Append(d \o counted.output, Stream!ErrorItem)
      BY <2>1, <3>1, Terminated
    <3> QED BY <1>3, <3>2
  <2>3. Stream!Translation(more) = Append(Stream!Messages(lines), Stream!ErrorItem)
    BY <1>1, <1>7, <1>10, TranslationEnds
  <2> QED BY <1>1, <1>5, <1>6, <1>7, <1>10, <2>2, <2>3 DEF Converted, after, event
<1>11. CASE ~ event.error /\ event.delta = Stream!NoDelta
  <2>1. after = reasoned
    BY <1>9, <1>11
  <2>2. Stream!Ending(more) = {}
    BY <1>6, <1>7, <1>11
  <2>3. Stream!Translation(more) = Stream!Messages(lines)
    BY <1>2, <1>8, <1>11, <2>2, TranslationOf, MessagesAppend
  <2> QED BY <1>1, <1>4, <1>5, <2>1, <2>2, <2>3 DEF Converted, after, event
<1>12. CASE ~ event.error /\ event.delta # Stream!NoDelta
  <2>1. after = Stream!enqueue(reasoned, message)
    BY <1>9, <1>12
  <2>2. Stream!Ending(more) = {}
    BY <1>6, <1>7, <1>12
  <2>3. Stream!Translation(more) = Append(Stream!Messages(lines), message)
    BY <1>2, <1>8, <1>12, <2>2, TranslationOf, MessagesAppend DEF message, event
  <2>4. /\ IsConverter(after) /\ d \o after.output = Append(d \o st.output, message)
        /\ after.input = st.input /\ after.finished = FALSE /\ after.usage = CountsOf(more)
        /\ after.finish_reason = FinishOf(more)
    <3>1. IsConverter(reasoned)
      BY <1>4
    <3> DEFINE queued == Stream!enqueue(reasoned, message)
    <3>2. /\ IsConverter(queued) /\ d \o queued.output = Append(d \o reasoned.output, message)
          /\ queued.input = reasoned.input /\ queued.finished = reasoned.finished
          /\ queued.usage = reasoned.usage /\ queued.finish_reason = reasoned.finish_reason
      BY <3>1, Enqueued
    <3> HIDE DEF queued
    <3>3. after = queued
      BY <2>1 DEF queued
    <3> QED BY <1>4, <3>2, <3>3
  <2> QED BY <1>1, <1>5, <2>2, <2>3, <2>4 DEF Converted, after, event
<1> QED BY <1>10, <1>11, <1>12

\* What is left of three elements without the first.
LEMMA TailOfThree ==
  ASSUME NEW a, NEW b, NEW c
  PROVE  Tail(<<a, b, c>>) = <<b, c>>
OBVIOUS

\* The same, of four elements.
LEMMA TailOfFour ==
  ASSUME NEW a, NEW b, NEW c, NEW d
  PROVE  Tail(<<a, b, c, d>>) = <<b, c, d>>
OBVIOUS

\* The payload of an event is read as that event, with or without white space after it.
LEMMA PayloadRead ==
  ASSUME NEW e \in Stream!Payload,
         NEW payload \in {<<Stream!Piece(e, 1), Stream!Piece(e, 2)>>,
                          <<Stream!Piece(e, 1), Stream!Piece(e, 2), Stream!Return>>}
  PROVE  Stream!JsonPayload(payload) = {e} \cap DOMAIN Stream!JsonEvents
<1>1. ASSUME NEW x \in DOMAIN Stream!JsonEvents
      PROVE  payload \in {<<Stream!Piece(x, 1), Stream!Piece(x, 2)>>,
                          <<Stream!Piece(x, 1), Stream!Piece(x, 2), Stream!Return>>} <=> x = e
  <2>1. payload[1] = Stream!Piece(e, 1)
    OBVIOUS
  <2>2. ASSUME payload \in {<<Stream!Piece(x, 1), Stream!Piece(x, 2)>>,
                            <<Stream!Piece(x, 1), Stream!Piece(x, 2), Stream!Return>>}
        PROVE  x = e
    <3>1. payload[1] = Stream!Piece(x, 1)
      BY <2>2
    <3> QED BY <2>1, <3>1 DEF Stream!Piece
  <2> QED BY <2>2
<1> QED BY <1>1 DEF Stream!JsonPayload

\* A line that is no data line, or has no payload, is passed over.
LEMMA SilentLine ==
  ASSUME NEW st, NEW line, line = << >> \/ Head(line) # Stream!Data \/ line = <<Stream!Data>>
  PROVE  Stream!consume_sse_line(st, line) = st
<1>1. <<Stream!Data>> # << >> /\ Head(<<Stream!Data>>) = Stream!Data /\ Len(<<Stream!Data>>) = 1
  OBVIOUS
<1>2. line = << >> \/ Head(line) # Stream!Data => line # Stream!LinePieces("done")
  <2>1. Stream!LinePieces("done") = <<Stream!Data, Stream!Piece("done", 1), Stream!Piece("done", 2)>>
    BY DEF Stream!LinePieces
  <2> QED BY <2>1
<1>3. Len(<< >>) = 0
  OBVIOUS
<1>4. CASE line = << >>
  BY <1>2, <1>3, <1>4 DEF Stream!consume_sse_line
<1>5. CASE line # << >> /\ Head(line) # Stream!Data
  BY <1>2, <1>5 DEF Stream!consume_sse_line
<1>6. CASE line = <<Stream!Data>>
  <2>1. line # Stream!LinePieces("done") /\ ~(Len(line) > 1)
    BY <1>1, <1>6 DEF Stream!LinePieces
  <2> QED BY <1>1, <1>6, <2>1 DEF Stream!consume_sse_line
<1> QED BY <1>4, <1>5, <1>6

\* The lines of the end marker and of the events.
LEMMA DoneLine ==
  ASSUME NEW st
  PROVE  Stream!consume_sse_line(st, Stream!LinePieces("done")) = Stream!enqueue_done(st)
<1> DEFINE line == Stream!LinePieces("done")
<1>1. line = <<Stream!Data, Stream!Piece("done", 1), Stream!Piece("done", 2)>>
  BY DEF Stream!LinePieces
<1>2. /\ line # << >> /\ Head(line) = Stream!Data /\ line # <<Stream!Data>>
      /\ Tail(line) = <<Stream!Piece("done", 1), Stream!Piece("done", 2)>>
  <2>1. line # << >> /\ Head(line) = Stream!Data /\ line # <<Stream!Data>>
    BY <1>1
  <2>2. Tail(line) = <<Stream!Piece("done", 1), Stream!Piece("done", 2)>>
    BY <1>1, TailOfThree, Zenon
  <2> QED BY <2>1, <2>2
<1>3. Stream!JsonPayload(Tail(line)) = {}
  <2>1. "done" \in Stream!Payload /\ "done" \notin DOMAIN Stream!JsonEvents
    BY EventNames
  <2> DEFINE payload == <<Stream!Piece("done", 1), Stream!Piece("done", 2)>>
  <2>2. Stream!JsonPayload(payload) = {"done"} \cap DOMAIN Stream!JsonEvents
    BY <2>1, PayloadRead
  <2> QED BY <1>2, <2>1, <2>2
<1> HIDE DEF line
<1>4. Stream!consume_sse_line(st, line) = Stream!enqueue_done(st)
  BY <1>2, <1>3 DEF Stream!consume_sse_line, line
<1> QED BY <1>4 DEF line

\* A line with a JSON payload is consumed as its event, with or without white space after it.
LEMMA EventLine ==
  ASSUME NEW st, NEW e \in DOMAIN Stream!JsonEvents,
         NEW line \in {<<Stream!Data, Stream!Piece(e, 1), Stream!Piece(e, 2)>>,
                       <<Stream!Data, Stream!Piece(e, 1), Stream!Piece(e, 2), Stream!Return>>}
  PROVE  Stream!consume_sse_line(st, line) = Stream!consume_event(st, Stream!JsonEvents[e])
<1>1. /\ line # << >> /\ Head(line) = Stream!Data /\ line # <<Stream!Data>> /\ Len(line) > 1
      /\ line[2] = Stream!Piece(e, 1)
      /\ Tail(line) \in {<<Stream!Piece(e, 1), Stream!Piece(e, 2)>>,
                         <<Stream!Piece(e, 1), Stream!Piece(e, 2), Stream!Return>>}
  <2> DEFINE one == Stream!Piece(e, 1)
             two == Stream!Piece(e, 2)
             data == Stream!Data
             return == Stream!Return
  <2>1. line \in {<<data, one, two>>, <<data, one, two, return>>}
    OBVIOUS
  <2> HIDE DEF one, two, data, return
  <2>2. /\ line # << >> /\ Head(line) = data /\ line # <<data>> /\ Len(line) > 1
        /\ line[2] = one
    BY <2>1
  <2>3. Tail(<<data, one, two>>) = <<one, two>>
    BY TailOfThree, Zenon
  <2>4. Tail(<<data, one, two, return>>) = <<one, two, return>>
    BY TailOfFour
  <2>5. Tail(line) \in {<<one, two>>, <<one, two, return>>}
    BY <2>1, <2>3, <2>4, Zenon
  <2> QED BY <2>2, <2>5 DEF one, two, data, return
<1>2. e \in Stream!Payload /\ e # "done"
  BY EventNames
<1>3. line # Stream!LinePieces("done")
  <2>1. Stream!LinePieces("done")[2] = Stream!Piece("done", 1)
    BY DEF Stream!LinePieces
  <2>2. Stream!Piece("done", 1) # Stream!Piece(e, 1)
    BY <1>2 DEF Stream!Piece
  <2> QED BY <1>1, <2>1, <2>2
<1>4. Stream!JsonPayload(Tail(line)) = {e}
  <2> DEFINE payload == Tail(line)
  <2>1. payload \in {<<Stream!Piece(e, 1), Stream!Piece(e, 2)>>,
                     <<Stream!Piece(e, 1), Stream!Piece(e, 2), Stream!Return>>}
    BY <1>1
  <2> HIDE DEF payload
  <2>2. Stream!JsonPayload(payload) = {e} \cap DOMAIN Stream!JsonEvents
    BY <1>2, <2>1, PayloadRead
  <2> QED BY <2>2 DEF payload
<1>5. (CHOOSE x \in {e} : TRUE) = e
  OBVIOUS
<1>6. Stream!consume_sse_line(st, line) =
        Stream!consume_event(st, Stream!JsonEvents[CHOOSE x \in Stream!JsonPayload(Tail(line)) : TRUE])
  BY <1>1, <1>3, <1>4 DEF Stream!consume_sse_line
<1> QED BY <1>4, <1>5, <1>6

\* Any other data line cannot be read.
LEMMA BrokenLine ==
  ASSUME NEW st, NEW line, line # << >>, Head(line) = Stream!Data, line # <<Stream!Data>>,
         line # Stream!LinePieces("done"), Stream!JsonPayload(Tail(line)) = {}
  PROVE  Stream!consume_sse_line(st, line) = Over(st, Stream!BrokenItem)
BY DEF Stream!consume_sse_line, Over

\* A complete line that is consumed is translated.
LEMMA LineConsumed ==
  ASSUME NEW lines \in Seq(Stream!StreamLines), NEW line \in Stream!StreamLines,
         NEW d, IsSequence(d), NEW st, Converted(d, st, lines), ~ st.finished
  PROVE  LET after == Stream!consume_sse_line(st, Stream!LinePieces(line))
         IN  Converted(d, after, Append(lines, line)) /\ (~ after.finished => after.input = st.input)
<1> DEFINE after == Stream!consume_sse_line(st, Stream!LinePieces(line))
           more == Append(lines, line)
<1>1. /\ IsConverter(st) /\ st.finished = FALSE /\ Stream!Ending(lines) = {}
      /\ d \o st.output = Stream!Translation(lines)
      /\ st.finish_reason = FinishOf(lines) /\ st.usage = CountsOf(lines)
  BY DEF Converted, IsConverter
<1>2. Stream!Translation(lines) = Stream!Messages(lines)
  BY <1>1, TranslationOf
<1>3. CASE line \in DOMAIN Stream!JsonEvents
  <2>1. line \in Stream!Payload /\ line # "comment" /\ line # "blank"
    BY <1>3, EventNames
  <2>2. Stream!LinePieces(line) = <<Stream!Data, Stream!Piece(line, 1), Stream!Piece(line, 2)>>
    BY <2>1, LinePiecesAre
  <2>3. after = Stream!consume_event(st, Stream!JsonEvents[line])
    BY <1>3, <2>2, EventLine
  <2> QED BY <1>3, <2>3, EventConsumed
<1>4. CASE line \in {"comment", "blank"}
  <2>1. after = st
    <3>1. CASE line = "comment"
      <4>1. Stream!LinePieces(line) = <<Stream!Piece("comment", 0)>> /\ Stream!Piece("comment", 0) # Stream!Data
        BY <3>1, PiecesDiffer DEF Stream!LinePieces
      <4>2. Head(Stream!LinePieces(line)) # Stream!Data
        BY <4>1
      <4> QED BY <4>2, SilentLine
    <3>2. CASE line = "blank"
      <4>1. Stream!LinePieces(line) = <<Stream!Data>>
        BY <3>2 DEF Stream!LinePieces
      <4> QED BY <4>1, SilentLine
    <3> QED BY <1>4, <3>1, <3>2
  <2>2. line \notin DOMAIN Stream!JsonEvents /\ line \notin {"done", "bad", "error"}
    BY <1>4, EventNames
  <2>3. Stream!Ending(more) = {}
    BY <1>1, <2>2, EndingAppend
  <2>4. ~ Stream!Speaks(line)
    BY <2>2 DEF Stream!Speaks
  <2>5. Stream!Translation(more) = Stream!Messages(lines)
    <3>1. more \in Seq(Stream!StreamLines)
      OBVIOUS
    <3> HIDE DEF more
    <3>2. Stream!Translation(more) = Stream!Messages(more)
      BY <2>3, <3>1, TranslationOf
    <3>3. Stream!Messages(more) = Stream!Messages(lines)
      BY <2>4, MessagesAppend DEF more
    <3> QED BY <3>2, <3>3
  <2>6. CountsOf(more) = CountsOf(lines) /\ FinishOf(more) = FinishOf(lines)
    BY <2>2, UsageStays
  <2> HIDE DEF after, more
  <2> QED BY <1>1, <1>2, <2>1, <2>3, <2>5, <2>6 DEF Converted, after, more
<1>5. CASE line = "done"
  <2> DEFINE item == Stream!DoneItem(st.finish_reason, st.usage)
  <2>1. after = Over(st, item)
    BY <1>1, <1>5, DoneLine DEF Stream!enqueue_done, Over
  <2>2. item = Stream!DoneFor(lines)
    BY <1>1, DoneForIs
  <2>3. Stream!Ending(more) # {}
    BY <1>5, EndingAppend
  <2>4. Stream!Translation(more) = Append(Stream!Messages(lines), Stream!DoneFor(lines))
    BY <1>1, <1>5, TranslationEnds
  <2> HIDE DEF item, after, more
  <2>5. IsConverter(after) /\ after.finished /\ d \o after.output = Append(d \o st.output, item)
    BY <1>1, <2>1, Terminated
  <2> QED BY <1>1, <1>2, <2>2, <2>3, <2>4, <2>5 DEF Converted, after, more
<1>6. CASE line = "bad"
  <2> DEFINE pieces == Stream!LinePieces(line)
  <2>1. line \in Stream!Payload /\ line \notin DOMAIN Stream!JsonEvents /\ line # "done"
    BY <1>6, EventNames
  <2>2. pieces = <<Stream!Data, Stream!Piece(line, 1), Stream!Piece(line, 2)>>
    BY <1>6 DEF Stream!LinePieces
  <2>3. pieces # << >> /\ Head(pieces) = Stream!Data /\ pieces # <<Stream!Data>>
    BY <2>2
  <2>4. pieces # Stream!LinePieces("done")
    <3>1. Stream!LinePieces("done")[2] = Stream!Piece("done", 1) /\ pieces[2] = Stream!Piece(line, 1)
      BY <2>2 DEF Stream!LinePieces
    <3>2. Stream!Piece("done", 1) # Stream!Piece(line, 1)
      BY <2>1 DEF Stream!Piece
    <3> QED BY <3>1, <3>2
  <2>5. Stream!JsonPayload(Tail(pieces)) = {}
    <3> DEFINE payload == <<Stream!Piece(line, 1), Stream!Piece(line, 2)>>
    <3>1. Tail(pieces) = payload
      BY <2>2, TailOfThree, Zenon
    <3>2. Stream!JsonPayload(payload) = {line} \cap DOMAIN Stream!JsonEvents
      BY <2>1, PayloadRead
    <3> QED BY <2>1, <3>1, <3>2
  <2> HIDE DEF pieces
  <2>6. after = Over(st, Stream!BrokenItem)
    BY <2>3, <2>4, <2>5, BrokenLine DEF pieces
  <2>7. Stream!Ending(more) # {}
    BY <1>6, EndingAppend
  <2>8. Stream!Translation(more) = Append(Stream!Messages(lines), Stream!BrokenItem)
    BY <1>1, <1>6, TranslationEnds
  <2> HIDE DEF after, more
  <2>9. IsConverter(after) /\ after.finished /\ d \o after.output = Append(d \o st.output, Stream!BrokenItem)
    BY <1>1, <2>6, Terminated
  <2> QED BY <1>1, <1>2, <2>7, <2>8, <2>9 DEF Converted, after, more
<1> QED BY <1>3, <1>4, <1>5, <1>6, EventNames

-----------------------------------------------------------------------------
(* The converter, piece by piece *)

\* A line break that has come up to its new-line character is dropped.
LEMMA ReturnDropped ==
  ASSUME NEW line \in Stream!StreamLines, NEW break \in Breaks, NEW part \in Seq(Pieces),
         Len(part) = Len(Ended(line, break)) - 1,
         \A i \in 1 .. Len(part) : part[i] = Ended(line, break)[i]
  PROVE  Stream!WithoutReturn(part) = Stream!LinePieces(line)
<1> DEFINE pieces == Stream!LinePieces(line)
           n == Len(pieces)
<1>1. /\ pieces \in Seq(Pieces) /\ n \in 1 .. 3
      /\ \A i \in 1 .. n : pieces[i] # Stream!Return
  BY PlainLine
<1>2. /\ Len(Ended(line, break)) = n + Len(break)
      /\ \A i \in 1 .. n : Ended(line, break)[i] = pieces[i]
      /\ \A i \in 1 .. Len(break) : Ended(line, break)[n + i] = break[i]
  BY EndedLine
<1>3. Len(break) \in 1 .. 2 /\ (Len(break) = 2 => break[1] = Stream!Return)
  BY BreaksAre
<1> HIDE DEF pieces, n
<1>4. part # << >>
  <2>1. PICK b \in 1 .. 2 : b = Len(break)
    BY <1>3
  <2>2. Len(part) = n + b - 1
    BY <1>1, <1>2, <2>1
  <2>3. Len(part) > 0
    BY <1>1, <2>2
  <2> QED BY <2>3
<1>5. Stream!Last(part) = part[Len(part)] /\ Stream!Front(part) = SubSeq(part, 1, Len(part) - 1)
  BY DEF Stream!Last, Stream!Front
<1>6. CASE Len(break) = 1
  <2>1. Len(part) = n /\ \A i \in 1 .. n : part[i] = pieces[i]
    BY <1>1, <1>2, <1>6
  <2>2. part = pieces
    BY <1>1, <2>1 DEF n
  <2>3. part[Len(part)] # Stream!Return
    BY <1>1, <2>1
  <2> QED BY <1>5, <2>2, <2>3 DEF Stream!WithoutReturn, pieces
<1>7. CASE Len(break) = 2
  <2>1. Len(part) = n + 1 /\ \A i \in 1 .. n : part[i] = pieces[i]
    BY <1>1, <1>2, <1>7
  <2>2. part[n + 1] = Stream!Return
    <3>1. n + 1 \in 1 .. Len(part) /\ 1 \in 1 .. Len(break)
      BY <1>1, <1>7, <2>1
    <3> QED BY <1>2, <1>3, <1>7, <3>1
  <2>3. SubSeq(part, 1, n) = pieces
    BY <1>1, <2>1 DEF n
  <2>4. Len(part) - 1 = n
    BY <1>1, <2>1
  <2> QED BY <1>4, <1>5, <2>1, <2>2, <2>3, <2>4 DEF Stream!WithoutReturn, pieces
<1> QED BY <1>3, <1>6, <1>7

\* After m pieces of a text, the converter has translated the complete lines and keeps
\* the beginning of the next one.
Reading(d, st, lines, text, ends, m) ==
  \E k : /\ At(lines, ends, m, k)
         /\ Converted(d, st, SubSeq(lines, 1, k))
         /\ ~ st.finished => st.input = SubSeq(text, ends[k] + 1, m)

\* The converter with another input.
WithInput(st, input) == [st EXCEPT !.input = input]

\* Only the input of a state changes.
LEMMA InputChanges ==
  ASSUME NEW d, NEW st, NEW lines, Converted(d, st, lines), NEW input
  PROVE  /\ Converted(d, WithInput(st, input), lines)
         /\ WithInput(st, input).finished = st.finished
         /\ WithInput(st, input).input = input
<1> DEFINE after == WithInput(st, input)
<1>1. IsConverter(st)
  BY DEF Converted
<1>2. /\ DOMAIN after = DOMAIN st /\ after.input = input /\ after.output = st.output
      /\ after.usage = st.usage /\ after.finish_reason = st.finish_reason
      /\ after.finished = st.finished
  BY <1>1 DEF IsConverter, WithInput
<1> HIDE DEF after
<1>3. Converted(d, after, lines)
  BY <1>2 DEF Converted, IsConverter
<1> QED BY <1>2, <1>3 DEF after

\* The elements of a part of a sequence.
LEMMA PartIs ==
  ASSUME NEW S, NEW s \in Seq(S), NEW a \in Nat, NEW m \in Nat, a <= m, m <= Len(s)
  PROVE  /\ SubSeq(s, a + 1, m) \in Seq(S) /\ Len(SubSeq(s, a + 1, m)) = m - a
         /\ \A i \in 1 .. m - a : SubSeq(s, a + 1, m)[i] = s[a + i]
OBVIOUS

\* A part of a sequence goes on with the next element.
LEMMA PartGoesOn ==
  ASSUME NEW S, NEW s \in Seq(S), NEW a \in Nat, NEW m \in Nat, a <= m, m < Len(s)
  PROVE  Append(SubSeq(s, a + 1, m), s[m + 1]) = SubSeq(s, a + 1, m + 1)
OBVIOUS

\* A piece that is consumed takes the converter one position further.
LEMMA PieceConsumed ==
  ASSUME NEW lines \in Seq(Stream!StreamLines), NEW break \in Breaks,
         NEW text, NEW ends, IsText(text, lines, break, ends),
         NEW m \in Nat, m < Len(text),
         NEW d, IsSequence(d), NEW st, Reading(d, st, lines, text, ends, m)
  PROVE  Reading(d, Stream!consume_piece(st, text[m + 1]), lines, text, ends, m + 1)
<1> DEFINE piece == text[m + 1]
           after == Stream!consume_piece(st, piece)
<1>1. PICK k : /\ At(lines, ends, m, k)
               /\ Converted(d, st, SubSeq(lines, 1, k))
               /\ ~ st.finished => st.input = SubSeq(text, ends[k] + 1, m)
  BY DEF Reading
<1>2. /\ k \in 0 .. Len(lines) - 1
      /\ lines[k + 1] \in Stream!StreamLines
      /\ piece = Stream!NewLine => m + 1 = ends[k + 1] /\ At(lines, ends, m + 1, k + 1)
      /\ piece # Stream!NewLine => At(lines, ends, m + 1, k)
  BY <1>1, NextPiece
<1> DEFINE line == lines[k + 1]
           past == SubSeq(lines, 1, k)
           more == SubSeq(lines, 1, k + 1)
<1>3. past \in Seq(Stream!StreamLines) /\ more = Append(past, line)
  BY <1>2
<1>4. text \in Seq(Pieces) /\ ends \in [0 .. Len(lines) -> Nat] /\ ends[k] \in Nat /\ ends[k] <= m
  BY <1>1, <1>2 DEF IsText, At
<1>5. st.finished \in BOOLEAN
  BY <1>1 DEF Converted, IsConverter
<1> HIDE DEF past, more, line
<1>6. CASE st.finished
  <2> DEFINE held == Append(st.input, piece)
  <2>2. after = WithInput(st, held)
    BY <1>6 DEF Stream!consume_piece, WithInput
  <2> HIDE DEF after, held
  <2>3. Converted(d, after, past) /\ after.finished
    BY <1>1, <1>6, <2>2, InputChanges DEF past
  <2>4. CASE piece # Stream!NewLine
    BY <1>2, <2>3, <2>4 DEF Reading, past, after, piece
  <2>5. CASE piece = Stream!NewLine
    <3>1. Stream!Ending(past) # {}
      BY <2>3 DEF Converted
    <3>2. Stream!Translation(more) = Stream!Translation(past)
      BY <1>2, <1>3, <3>1, TranslationOver DEF line
    <3>3. Stream!Ending(more) # {}
      BY <1>2, <1>3, <3>1, EndingAppend DEF line
    <3>4. Converted(d, after, more)
      BY <2>3, <3>2, <3>3 DEF Converted
    <3> QED BY <1>2, <2>3, <2>5, <3>4 DEF Reading, more, after, piece
  <2> QED BY <2>4, <2>5
<1>7. CASE ~ st.finished /\ piece # Stream!NewLine
  <2> DEFINE held == Append(st.input, piece)
  <2>1. after = WithInput(st, held)
    BY <1>7 DEF Stream!consume_piece, WithInput
  <2>2. held = SubSeq(text, ends[k] + 1, m + 1)
    <3>1. st.input = SubSeq(text, ends[k] + 1, m)
      BY <1>1, <1>7
    <3>2. Append(SubSeq(text, ends[k] + 1, m), text[m + 1]) = SubSeq(text, ends[k] + 1, m + 1)
      BY <1>4, PartGoesOn
    <3> QED BY <3>1, <3>2
  <2> HIDE DEF after, held
  <2>3. Converted(d, after, past) /\ after.input = held
    BY <1>1, <2>1, InputChanges DEF past
  <2> QED BY <1>2, <1>7, <2>2, <2>3 DEF Reading, past, after, piece
<1>8. CASE ~ st.finished /\ piece = Stream!NewLine
  <2> DEFINE empty == WithInput(st, << >>)
             part == st.input
  <2>1. after = Stream!consume_sse_line(empty, Stream!WithoutReturn(part))
    BY <1>8 DEF Stream!consume_piece, WithInput
  <2>2. Converted(d, empty, past) /\ empty.finished = st.finished /\ empty.input = << >>
    BY <1>1, InputChanges DEF past
  <2>3. Stream!WithoutReturn(part) = Stream!LinePieces(line)
    <3>1. part = SubSeq(text, ends[k] + 1, m)
      BY <1>1, <1>8
    <3>2. m + 1 = ends[k + 1]
      BY <1>2, <1>8
    <3>3. /\ ends[k + 1] = ends[k] + Len(Ended(line, break))
          /\ \A j \in 1 .. Len(Ended(line, break)) : text[ends[k] + j] = Ended(line, break)[j]
      BY <1>2, LineAt DEF line
    <3>4. Len(Ended(line, break)) \in 2 .. 5 /\ line \in Stream!StreamLines
      BY <1>2, EndedLine DEF line
    <3>5. /\ part \in Seq(Pieces) /\ Len(part) = m - ends[k]
          /\ \A i \in 1 .. m - ends[k] : part[i] = text[ends[k] + i]
      <4>1. m <= Len(text)
        BY <1>4
      <4>2. /\ SubSeq(text, ends[k] + 1, m) \in Seq(Pieces)
            /\ Len(SubSeq(text, ends[k] + 1, m)) = m - ends[k]
            /\ \A i \in 1 .. m - ends[k] : SubSeq(text, ends[k] + 1, m)[i] = text[ends[k] + i]
        BY <1>4, <4>1, PartIs
      <4> QED BY <3>1, <4>2
    <3>6. Len(part) = Len(Ended(line, break)) - 1
      BY <1>4, <3>2, <3>3, <3>4, <3>5
    <3>7. ASSUME NEW i \in 1 .. Len(part)
          PROVE  part[i] = Ended(line, break)[i]
      <4>1. part[i] = text[ends[k] + i]
        BY <3>5
      <4>2. i \in 1 .. Len(Ended(line, break))
        BY <1>4, <3>4, <3>5, <3>6
      <4> QED BY <3>3, <4>1, <4>2
    <3> HIDE DEF part
    <3> QED BY <3>4, <3>5, <3>6, <3>7, ReturnDropped
  <2> HIDE DEF empty, part
  <2>4. after = Stream!consume_sse_line(empty, Stream!LinePieces(line))
    BY <2>1, <2>3
  <2>5. Converted(d, after, more) /\ (~ after.finished => after.input = empty.input)
    <3>1. line \in Stream!StreamLines /\ ~ empty.finished
      BY <1>2, <1>8, <2>2 DEF line
    <3> QED BY <1>3, <2>2, <2>4, <3>1, LineConsumed
  <2>6. SubSeq(text, ends[k + 1] + 1, m + 1) = << >>
    BY <1>2, <1>4, <1>8
  <2> HIDE DEF after
  <2> QED BY <1>2, <1>8, <2>2, <2>5, <2>6 DEF Reading, more, after, piece
<1> QED BY <1>5, <1>6, <1>7, <1>8

\* after[i], as consume_complete_lines computes it, for every i up to n.
IsRun(after, st, pieces, n) ==
  after = [i \in 0 .. n |-> IF i = 0 THEN WithInput(st, << >>)
                            ELSE Stream!consume_piece(after[i - 1], pieces[i])]

\* A step of it.
LEMMA RunStep ==
  ASSUME NEW after, NEW st, NEW pieces, NEW n \in Nat, IsRun(after, st, pieces, n), NEW i \in 0 .. n
  PROVE  /\ i = 0 => after[i] = WithInput(st, << >>)
         /\ i # 0 => after[i] = Stream!consume_piece(after[i - 1], pieces[i])
BY DEF IsRun

\* The converter can take any pieces.
LEMMA RunExists ==
  ASSUME NEW st, NEW pieces, NEW n \in Nat
  PROVE  \E after : IsRun(after, st, pieces, n)
<1> DEFINE stuck == {k \in Nat : ~ \E after : IsRun(after, st, pieces, k)}
<1>1. SUFFICES ASSUME stuck # {} PROVE FALSE
  OBVIOUS
<1>2. PICK k \in stuck : \A j \in stuck : k <= j
  BY <1>1, LeastNumber
<1>3. CASE k = 0
  <2>1. IsRun([i \in 0 .. 0 |-> WithInput(st, << >>)], st, pieces, 0)
    BY DEF IsRun
  <2> QED BY <1>2, <1>3, <2>1
<1>4. CASE k > 0
  <2>1. k - 1 \in Nat /\ k - 1 \notin stuck
    BY <1>2, <1>4
  <2>2. PICK run : IsRun(run, st, pieces, k - 1)
    BY <2>1
  <2> DEFINE longer == [i \in 0 .. k |-> IF i = k THEN Stream!consume_piece(run[k - 1], pieces[k])
                                         ELSE run[i]]
  <2>3. ASSUME NEW i \in 0 .. k
        PROVE  longer[i] = IF i = 0 THEN WithInput(st, << >>)
                           ELSE Stream!consume_piece(longer[i - 1], pieces[i])
    <3>1. CASE i = k
      BY <1>2, <1>4, <3>1
    <3>2. CASE i # k
      <4>1. i \in 0 .. k - 1 /\ longer[i] = run[i]
        BY <1>2, <3>2
      <4>2. run[i] = IF i = 0 THEN WithInput(st, << >>)
                     ELSE Stream!consume_piece(run[i - 1], pieces[i])
        BY <2>2, <4>1 DEF IsRun
      <4>3. i # 0 => longer[i - 1] = run[i - 1]
        BY <1>2, <3>2
      <4> QED BY <4>1, <4>2, <4>3
    <3> QED BY <3>1, <3>2
  <2>4. IsRun(longer, st, pieces, k)
    BY <2>3 DEF IsRun
  <2> QED BY <1>2, <2>4
<1> QED BY <1>2, <1>3, <1>4

\* consume_complete_lines ends where such a run does.
LEMMA RunIsTaken ==
  ASSUME NEW st, Len(st.input) \in Nat
  PROVE  \E after : /\ IsRun(after, st, st.input, Len(st.input))
                    /\ Stream!consume_complete_lines(st) = after[Len(st.input)]
<1>1. \E after : IsRun(after, st, st.input, Len(st.input))
  BY RunExists
<1> DEFINE after == CHOOSE g : g = [i \in 0 .. Len(st.input) |->
                      IF i = 0 THEN WithInput(st, << >>)
                      ELSE Stream!consume_piece(g[i - 1], st.input[i])]
<1>2. IsRun(after, st, st.input, Len(st.input))
  BY <1>1, Zenon DEF IsRun
<1>3. Stream!consume_complete_lines(st) = after[Len(st.input)]
  BY DEF Stream!consume_complete_lines, WithInput
<1> QED BY <1>2, <1>3

\* Two adjacent parts of a sequence are one.
LEMMA PartsJoin ==
  ASSUME NEW S, NEW s \in Seq(S), NEW a \in Nat, NEW m \in Nat, NEW n \in Nat, a <= m, m <= n, n <= Len(s)
  PROVE  /\ SubSeq(s, a + 1, m) \o SubSeq(s, m + 1, n) = SubSeq(s, a + 1, n)
         /\ Len(SubSeq(s, a + 1, n)) = n - a
         /\ \A i \in 1 .. n - a : SubSeq(s, a + 1, n)[i] = s[a + i]
OBVIOUS

\* However much of the text a chunk holds, the converter goes on to its end.
LEMMA ChunkConsumed ==
  ASSUME NEW lines \in Seq(Stream!StreamLines), NEW break \in Breaks,
         NEW text, NEW ends, IsText(text, lines, break, ends),
         NEW m \in Nat, NEW n \in Nat, m <= n, n <= Len(text),
         NEW d, IsSequence(d), NEW st, Reading(d, st, lines, text, ends, m), ~ st.finished
  PROVE  Reading(d, Stream!ChunkArrives(st, SubSeq(text, m + 1, n)), lines, text, ends, n)
<1>1. PICK k : /\ At(lines, ends, m, k)
               /\ Converted(d, st, SubSeq(lines, 1, k))
               /\ st.input = SubSeq(text, ends[k] + 1, m)
  BY DEF Reading
<1> DEFINE a == ends[k]
           all == SubSeq(text, a + 1, n)
           fed == WithInput(st, all)
<1>2. /\ text \in Seq(Pieces) /\ a \in Nat /\ a <= m /\ k \in 0 .. Len(lines)
      /\ ends \in [0 .. Len(lines) -> Nat]
  BY <1>1 DEF IsText, At
<1> HIDE DEF a
<1>3. /\ st.input \o SubSeq(text, m + 1, n) = all
      /\ Len(all) = n - a /\ \A i \in 1 .. n - a : all[i] = text[a + i]
  <2>1. st.input = SubSeq(text, a + 1, m)
    BY <1>1 DEF a
  <2>2. /\ SubSeq(text, a + 1, m) \o SubSeq(text, m + 1, n) = SubSeq(text, a + 1, n)
        /\ Len(SubSeq(text, a + 1, n)) = n - a
        /\ \A i \in 1 .. n - a : SubSeq(text, a + 1, n)[i] = text[a + i]
    BY <1>2, PartsJoin
  <2> QED BY <2>1, <2>2
<1> HIDE DEF all
<1>4. Stream!ChunkArrives(st, SubSeq(text, m + 1, n)) = Stream!consume_complete_lines(fed)
  BY <1>3 DEF Stream!ChunkArrives, WithInput
<1>5. Converted(d, fed, SubSeq(lines, 1, k)) /\ fed.finished = st.finished /\ fed.input = all
  BY <1>1, InputChanges
<1> HIDE DEF fed
<1>6. n - a \in Nat
  BY <1>2
<1>7. PICK after : IsRun(after, fed, all, n - a) /\ Stream!consume_complete_lines(fed) = after[n - a]
  BY <1>3, <1>5, <1>6, RunIsTaken
<1> DEFINE lost == {i \in 0 .. n - a : ~ Reading(d, after[i], lines, text, ends, a + i)}
<1>8. ASSUME lost # {} PROVE FALSE
  <2>1. PICK i \in lost : \A j \in lost : i <= j
    <3>1. lost \subseteq Nat
      BY <1>6
    <3> HIDE DEF lost
    <3> QED BY <1>8, <3>1, LeastNumber
  <2>2. i \in 0 .. n - a
    BY <2>1
  <2>3. CASE i = 0
    <3>1. after[i] = WithInput(fed, << >>)
      BY <1>6, <1>7, <2>2, <2>3, RunStep
    <3>2. Converted(d, after[i], SubSeq(lines, 1, k)) /\ after[i].input = << >>
      BY <1>5, <3>1, InputChanges
    <3>3. SubSeq(text, a + 1, a) = << >>
      BY <1>2
    <3>4. At(lines, ends, a, k)
      <4>1. ASSUME k # Len(lines) PROVE ends[k] < ends[k + 1]
        <5>1. k + 1 \in 0 .. Len(lines) /\ k < k + 1
          BY <1>2, <4>1
        <5> QED BY <1>2, <5>1, EndsIncrease
      <4> QED BY <1>2, <4>1 DEF At, a
    <3>5. Reading(d, after[i], lines, text, ends, a)
      BY <3>2, <3>3, <3>4 DEF Reading, a
    <3>6. a + i = a
      BY <1>2, <2>3
    <3> QED BY <2>1, <3>5, <3>6
  <2>4. CASE i # 0
    <3> DEFINE before == after[i - 1]
               p == a + (i - 1)
    <3>1. i - 1 \in 0 .. n - a /\ i - 1 \notin lost /\ i \in 1 .. n - a
      BY <1>6, <2>1, <2>2, <2>4
    <3>2. Reading(d, before, lines, text, ends, p)
      BY <3>1
    <3>3. after[i] = Stream!consume_piece(before, all[i])
      BY <1>6, <1>7, <2>2, <2>4, RunStep
    <3>4. p \in Nat /\ p < Len(text) /\ p + 1 = a + i /\ Len(text) \in Nat
      BY <1>2, <1>6, <3>1
    <3>5. all[i] = text[p + 1]
      BY <1>3, <3>1, <3>4
    <3> HIDE DEF before, p
    <3>6. Reading(d, Stream!consume_piece(before, text[p + 1]), lines, text, ends, p + 1)
      BY <3>2, <3>4, PieceConsumed
    <3>7. Reading(d, after[i], lines, text, ends, a + i)
      BY <3>3, <3>4, <3>5, <3>6
    <3> QED BY <2>1, <3>7
  <2> QED BY <2>3, <2>4
<1>9. n - a \in 0 .. n - a /\ n - a \notin lost /\ a + (n - a) = n
  BY <1>2, <1>6, <1>8
<1>10. Reading(d, after[n - a], lines, text, ends, n)
  BY <1>9
<1> QED BY <1>4, <1>7, <1>10

-----------------------------------------------------------------------------
(* The end of the upstream *)

\* At the end of the upstream a stream that has no terminator yet gets the one of its lines.
LEMMA DoneEnqueued ==
  ASSUME NEW lines \in Seq(Stream!StreamLines), NEW d, IsSequence(d), NEW st, Converted(d, st, lines)
  PROVE  LET after == Stream!enqueue_done(st)
         IN  /\ IsConverter(after) /\ after.finished
             /\ st.finished => d \o after.output = Stream!Translation(lines)
             /\ ~ st.finished => d \o after.output = Append(Stream!Translation(lines), Stream!DoneFor(lines))
<1> DEFINE after == Stream!enqueue_done(st)
<1>1. IsConverter(st) /\ d \o st.output = Stream!Translation(lines)
  BY DEF Converted
<1>2. CASE st.finished
  <2>1. after = st
    BY <1>2 DEF Stream!enqueue_done
  <2> HIDE DEF after
  <2> QED BY <1>1, <1>2, <2>1 DEF after
<1>3. CASE ~ st.finished
  <2> DEFINE item == Stream!DoneItem(st.finish_reason, st.usage)
  <2>1. after = Over(st, item)
    BY <1>3 DEF Stream!enqueue_done, Over
  <2>2. item = Stream!DoneFor(lines)
    <3>1. st.finish_reason = FinishOf(lines) /\ st.usage = CountsOf(lines)
      BY <1>3 DEF Converted
    <3>2. Stream!DoneFor(lines) = Stream!DoneItem(FinishOf(lines), CountsOf(lines))
      BY DoneForIs
    <3> QED BY <3>1, <3>2
  <2> HIDE DEF item
  <2>3. /\ IsConverter(Over(st, item)) /\ Over(st, item).finished
        /\ d \o Over(st, item).output = Append(d \o st.output, item)
    BY <1>1, Terminated
  <2> HIDE DEF after
  <2>4. /\ IsConverter(after) /\ after.finished
        /\ d \o after.output = Append(Stream!Translation(lines), Stream!DoneFor(lines))
    BY <1>1, <2>1, <2>2, <2>3
  <2> QED BY <1>3, <2>4 DEF after
<1> QED BY <1>2, <1>3

\* One piece alone is no payload.
LEMMA NoPayload ==
  ASSUME NEW x
  PROVE  Stream!JsonPayload(<<x>>) = {}
<1>1. \A a, b, c : <<x>> # <<a, b>> /\ <<x>> # <<a, b, c>>
  OBVIOUS
<1> QED BY <1>1 DEF Stream!JsonPayload

\* A line that cannot be read ends the stream with an error.
LEMMA CloseBroken ==
  ASSUME NEW lines \in Seq(Stream!StreamLines), NEW d, IsSequence(d), NEW st, Converted(d, st, lines),
         NEW part, Stream!consume_sse_line(st, part) = Over(st, Stream!BrokenItem)
  PROVE  LET after == Stream!enqueue_done(Stream!consume_sse_line(st, part))
         IN  /\ IsConverter(after) /\ after.finished
             /\ d \o after.output = Append(Stream!Translation(lines), Stream!BrokenItem)
<1> DEFINE over == Over(st, Stream!BrokenItem)
<1>1. IsConverter(st) /\ d \o st.output = Stream!Translation(lines)
  BY DEF Converted
<1>2. IsConverter(over) /\ over.finished /\ d \o over.output = Append(d \o st.output, Stream!BrokenItem)
  BY <1>1, Terminated
<1> HIDE DEF over
<1>3. Stream!enqueue_done(over) = over
  BY <1>2 DEF Stream!enqueue_done
<1> QED BY <1>1, <1>2, <1>3 DEF over

\* A short sequence is the list of its elements.
LEMMA ListOfOne ==
  ASSUME NEW S, NEW s \in Seq(S), Len(s) = 1, NEW a, s[1] = a
  PROVE  s = <<a>>
OBVIOUS

\* The same, for two elements.
LEMMA ListOfTwo ==
  ASSUME NEW S, NEW s \in Seq(S), Len(s) = 2, NEW a, NEW b, s[1] = a, s[2] = b
  PROVE  s = <<a, b>>
OBVIOUS

\* The same, for three elements.
LEMMA ListOfThree ==
  ASSUME NEW S, NEW s \in Seq(S), Len(s) = 3, NEW a, NEW b, NEW c, s[1] = a, s[2] = b, s[3] = c
  PROVE  s = <<a, b, c>>
OBVIOUS

\* The same, for four elements.
LEMMA ListOfFour ==
  ASSUME NEW S, NEW s \in Seq(S), Len(s) = 4, NEW a, NEW b, NEW c, NEW e,
         s[1] = a, s[2] = b, s[3] = c, s[4] = e
  PROVE  s = <<a, b, c, e>>
OBVIOUS

\* What the end of the upstream may leave for a part of a line.
Closed(d, after, lines, line, next) ==
  /\ IsConverter(after) /\ after.finished
  /\ LET said == Stream!Translation(lines)
         one  == Stream!Translation(Append(lines, line))
         produced == d \o after.output
     IN  \/ produced = Append(said, Stream!DoneFor(lines))
         \/ produced = Append(said, Stream!BrokenItem)
         \/ /\ next \in {Stream!Return, Stream!NewLine}
            /\ produced \in {one, Append(one, Stream!DoneFor(Append(lines, line)))}

\* A whole line, with or without the first half of its line break.
LEMMA CloseWhole ==
  ASSUME NEW lines \in Seq(Stream!StreamLines), NEW line \in Stream!StreamLines,
         NEW d, IsSequence(d), NEW mid, Converted(d, mid, Append(lines, line)),
         NEW next \in {Stream!Return, Stream!NewLine}
  PROVE  Closed(d, Stream!enqueue_done(mid), lines, line, next)
<1> DEFINE more == Append(lines, line)
           after == Stream!enqueue_done(mid)
<1>1. more \in Seq(Stream!StreamLines)
  OBVIOUS
<1> HIDE DEF more
<1>2. Converted(d, mid, more)
  BY DEF more
<1>3. /\ IsConverter(after) /\ after.finished
      /\ mid.finished => d \o after.output = Stream!Translation(more)
      /\ ~ mid.finished => d \o after.output = Append(Stream!Translation(more), Stream!DoneFor(more))
  BY <1>1, <1>2, DoneEnqueued
<1> HIDE DEF after
<1> QED BY <1>3 DEF Closed, more, after

\* Whatever part of a line the upstream ends in, the stream is terminated.
LEMMA LineClosed ==
  ASSUME NEW lines \in Seq(Stream!StreamLines), NEW line \in Stream!StreamLines, NEW break \in Breaks,
         NEW part \in Seq(Pieces), Len(part) < Len(Ended(line, break)),
         \A i \in 1 .. Len(part) : part[i] = Ended(line, break)[i],
         NEW d, IsSequence(d), NEW st, Converted(d, st, lines), ~ st.finished
  PROVE  Closed(d, Stream!enqueue_done(Stream!consume_sse_line(st, part)), lines, line,
                Ended(line, break)[Len(part) + 1])
<1> DEFINE pieces == Stream!LinePieces(line)
           next == Ended(line, break)[Len(part) + 1]
           mid == Stream!consume_sse_line(st, part)
           after == Stream!enqueue_done(mid)
<1>1. /\ Len(Ended(line, break)) = Len(pieces) + Len(break)
      /\ \A i \in 1 .. Len(pieces) : Ended(line, break)[i] = pieces[i]
      /\ \A i \in 1 .. Len(break) : Ended(line, break)[Len(pieces) + i] = break[i]
  BY EndedLine
<1>2. /\ Len(break) \in 1 .. 2 /\ break[Len(break)] = Stream!NewLine
      /\ Len(break) = 2 => break[1] = Stream!Return
  BY BreaksAre
<1>3. PICK b \in 1 .. 2 : b = Len(break)
  BY <1>2
<1>4. PICK j \in Nat : j = Len(part)
  OBVIOUS
<1>5. ASSUME part = << >> \/ Head(part) # Stream!Data \/ part = <<Stream!Data>>
      PROVE  Closed(d, after, lines, line, next)
  <2>1. mid = st
    BY <1>5, SilentLine
  <2>2. /\ IsConverter(Stream!enqueue_done(st)) /\ Stream!enqueue_done(st).finished
        /\ d \o Stream!enqueue_done(st).output = Append(Stream!Translation(lines), Stream!DoneFor(lines))
    BY DoneEnqueued
  <2> QED BY <2>1, <2>2 DEF Closed
<1>6. ASSUME mid = Over(st, Stream!BrokenItem)
      PROVE  Closed(d, after, lines, line, next)
  <2>1. /\ IsConverter(after) /\ after.finished
        /\ d \o after.output = Append(Stream!Translation(lines), Stream!BrokenItem)
    BY <1>6, CloseBroken
  <2> HIDE DEF after
  <2> QED BY <2>1 DEF Closed
<1>7. CASE part = << >>
  BY <1>5, <1>7
<1>8. CASE part # << >> /\ line = "comment"
  <2>1. pieces = <<Stream!Piece("comment", 0)>>
    BY <1>8 DEF Stream!LinePieces
  <2>2. Len(pieces) = 1 /\ pieces[1] = Stream!Piece("comment", 0) /\ Len(part) > 0
    BY <1>8, <2>1
  <2>3. Head(part) = Stream!Piece("comment", 0)
    BY <1>1, <2>2
  <2>4. Head(part) # Stream!Data
    BY <2>3, PiecesDiffer
  <2> QED BY <1>5, <2>4
<1>9. CASE part # << >> /\ line = "blank"
  <2>1. pieces = <<Stream!Data>>
    BY <1>9 DEF Stream!LinePieces
  <2>2. Len(pieces) = 1 /\ pieces[1] = Stream!Data /\ j > 0
    BY <1>4, <1>9, <2>1
  <2>3. j < 1 + b /\ part[1] = Stream!Data
    BY <1>1, <1>3, <1>4, <2>2
  <2>4. CASE j = 1
    <3>1. part = <<Stream!Data>>
      BY <1>4, <2>3, <2>4, ListOfOne
    <3> QED BY <1>5, <3>1
  <2>5. CASE j = 2
    <3>1. part[2] = Stream!Return
      <4>1. b = 2 /\ 1 \in 1 .. Len(break) /\ 2 \in 1 .. Len(part)
        BY <1>3, <1>4, <2>3, <2>5
      <4> QED BY <1>1, <1>2, <1>3, <2>2, <4>1
    <3>2. part = <<Stream!Data, Stream!Return>>
      <4>1. Len(part) = 2 /\ part[1] = Stream!Data /\ part[2] = Stream!Return
        BY <1>4, <2>3, <2>5, <3>1
      <4> QED BY <4>1, ListOfTwo
    <3>3. /\ Head(part) = Stream!Data /\ part # <<Stream!Data>> /\ Tail(part) = <<Stream!Return>>
          /\ part # <<Stream!Data, Stream!Piece("done", 1), Stream!Piece("done", 2)>>
      BY <3>2
    <3>4. part # Stream!LinePieces("done")
      BY <3>3 DEF Stream!LinePieces
    <3>5. mid = Over(st, Stream!BrokenItem)
      BY <1>9, <3>3, <3>4, NoPayload, BrokenLine
    <3> QED BY <1>6, <3>5
  <2> QED BY <1>3, <1>4, <2>2, <2>3, <2>4, <2>5
<1>10. CASE part # << >> /\ line \in Stream!Payload
  <2> DEFINE first == Stream!Piece(line, 1)
             second == Stream!Piece(line, 2)
  <2>1. pieces = <<Stream!Data, first, second>>
    BY <1>10, LinePiecesAre, EventNames
  <2>2. /\ Len(pieces) = 3 /\ pieces[1] = Stream!Data /\ pieces[2] = first /\ pieces[3] = second
        /\ j > 0
    BY <1>4, <1>10, <2>1
  <2> HIDE DEF first, second
  <2>3. /\ j < 3 + b /\ part[1] = Stream!Data
        /\ j > 1 => part[2] = first
        /\ j > 2 => part[3] = second
    BY <1>1, <1>3, <1>4, <2>2
  <2>4. CASE j = 1
    <3>1. part = <<Stream!Data>>
      BY <1>4, <2>3, <2>4, ListOfOne
    <3> QED BY <1>5, <3>1
  <2>5. CASE j = 2
    <3>2. part = <<Stream!Data, first>>
      <4>1. Len(part) = 2 /\ part[1] = Stream!Data /\ part[2] = first
        BY <1>4, <2>3, <2>5
      <4> QED BY <4>1, ListOfTwo
    <3>3. /\ Head(part) = Stream!Data /\ part # <<Stream!Data>> /\ Tail(part) = <<first>>
          /\ part # <<Stream!Data, Stream!Piece("done", 1), Stream!Piece("done", 2)>>
      BY <3>2
    <3>4. part # Stream!LinePieces("done")
      BY <3>3 DEF Stream!LinePieces
    <3>5. mid = Over(st, Stream!BrokenItem)
      BY <1>10, <3>3, <3>4, NoPayload, BrokenLine
    <3> QED BY <1>6, <3>5
  <2>6. CASE j = 3
    <3>1. part = pieces
      <4>1. Len(part) = 3 /\ part[1] = Stream!Data /\ part[2] = first /\ part[3] = second
        BY <1>4, <2>3, <2>6
      <4>2. part = <<Stream!Data, first, second>>
        BY <4>1, ListOfThree
      <4> QED BY <2>1, <4>2
    <3>2. next \in {Stream!Return, Stream!NewLine}
      <4>1. 1 \in 1 .. Len(break)
        BY <1>3
      <4>2. next = break[1]
        BY <1>1, <1>4, <2>2, <2>6, <4>1
      <4> QED BY <1>2, <1>3, <4>2
    <3>3. Converted(d, mid, Append(lines, line))
      BY <3>1, LineConsumed
    <3> HIDE DEF mid, next
    <3>4. Closed(d, Stream!enqueue_done(mid), lines, line, next)
      BY <3>2, <3>3, CloseWhole
    <3> QED BY <3>4 DEF mid, next
  <2>7. CASE j = 4
    <3>1. b = 2
      BY <1>3, <2>3, <2>7
    <3>2. 1 \in 1 .. Len(break) /\ 2 \in 1 .. Len(break) /\ 4 \in 1 .. Len(part)
      BY <1>3, <1>4, <2>7, <3>1
    <3>3. part[4] = Stream!Return /\ next = Stream!NewLine
      BY <1>1, <1>2, <1>3, <1>4, <2>2, <2>7, <3>1, <3>2
    <3>4. part = <<Stream!Data, first, second, Stream!Return>>
      <4>1. /\ Len(part) = 4 /\ part[1] = Stream!Data /\ part[2] = first /\ part[3] = second
            /\ part[4] = Stream!Return
        BY <1>4, <2>3, <2>7, <3>3
      <4> QED BY <4>1, ListOfFour
    <3>5. CASE line \in DOMAIN Stream!JsonEvents
      <4>1. mid = Stream!consume_event(st, Stream!JsonEvents[line])
        BY <3>4, <3>5, EventLine DEF first, second
      <4>2. Converted(d, mid, Append(lines, line))
        BY <3>5, <4>1, EventConsumed
      <4> HIDE DEF mid, next
      <4>3. Closed(d, Stream!enqueue_done(mid), lines, line, next)
        BY <3>3, <4>2, CloseWhole
      <4> QED BY <4>3 DEF mid, next
    <3>6. CASE line \notin DOMAIN Stream!JsonEvents
      <4>1. Tail(part) = <<first, second, Stream!Return>>
        BY <3>4, TailOfFour
      <4>2. Stream!JsonPayload(Tail(part)) = {}
        <5>1. Stream!JsonPayload(Tail(part)) = {line} \cap DOMAIN Stream!JsonEvents
          BY <1>10, <4>1, PayloadRead DEF first, second
        <5> QED BY <3>6, <5>1
      <4>3. /\ Head(part) = Stream!Data /\ part # <<Stream!Data>>
            /\ part # <<Stream!Data, Stream!Piece("done", 1), Stream!Piece("done", 2)>>
        BY <3>4
      <4>4. part # Stream!LinePieces("done")
        BY <4>3 DEF Stream!LinePieces
      <4>5. mid = Over(st, Stream!BrokenItem)
        BY <1>10, <4>2, <4>3, <4>4, BrokenLine
      <4> QED BY <1>6, <4>5
    <3> QED BY <3>5, <3>6
  <2>8. j = 1 \/ j = 2 \/ j = 3 \/ j = 4
    <3>1. j > 0
      BY <2>2
    <3>2. j < 3 + b
      BY <2>3
    <3>3. b = 1 \/ b = 2
      OBVIOUS
    <3> QED BY <3>1, <3>2, <3>3
  <2> QED BY <2>4, <2>5, <2>6, <2>7, <2>8
<1> QED BY <1>7, <1>8, <1>9, <1>10, LinePiecesAre

\* The upstream has ended: what the converter has produced for the complete lines.
ClosedAt(d, st, lines, text, ends, m, how) ==
  /\ IsConverter(st) /\ st.finished
  /\ \E k : /\ At(lines, ends, m, k)
            /\ Stream!Ending(SubSeq(lines, 1, k)) = {}
            /\ how = "broken" =>
                 d \o st.output = Append(Stream!Translation(SubSeq(lines, 1, k)), Stream!BrokenItem)
            /\ how = "closed" =>
                 \/ d \o st.output = Append(Stream!Translation(SubSeq(lines, 1, k)),
                                            Stream!DoneFor(SubSeq(lines, 1, k)))
                 \/ m < Len(text) /\ Closed(d, st, SubSeq(lines, 1, k), lines[k + 1], text[m + 1])

\* A connection that breaks ends the stream with an error.
LEMMA BreakConsumed ==
  ASSUME NEW lines, NEW text, NEW ends, NEW m,
         NEW d, IsSequence(d), NEW st, Reading(d, st, lines, text, ends, m), ~ st.finished
  PROVE  ClosedAt(d, Stream!UpstreamBreaks(st), lines, text, ends, m, "broken")
<1>1. PICK k : At(lines, ends, m, k) /\ Converted(d, st, SubSeq(lines, 1, k))
  BY DEF Reading
<1> DEFINE past == SubSeq(lines, 1, k)
           after == Stream!UpstreamBreaks(st)
<1>2. IsConverter(st) /\ d \o st.output = Stream!Translation(past) /\ Stream!Ending(past) = {}
  BY <1>1 DEF Converted
<1>3. after = Over(st, Stream!BrokenItem)
  BY DEF Stream!UpstreamBreaks, Over
<1> HIDE DEF after
<1>4. IsConverter(after) /\ after.finished /\ d \o after.output = Append(d \o st.output, Stream!BrokenItem)
  BY <1>2, <1>3, Terminated
<1> HIDE DEF past
<1>5. /\ At(lines, ends, m, k) /\ Stream!Ending(past) = {}
      /\ d \o after.output = Append(Stream!Translation(past), Stream!BrokenItem)
  BY <1>1, <1>2, <1>4
<1>6. "broken" # "closed"
  OBVIOUS
<1> QED BY <1>4, <1>5, <1>6 DEF ClosedAt, past, after

\* A connection that is closed terminates the stream, wherever in the text that happens.
LEMMA CloseConsumed ==
  ASSUME NEW lines \in Seq(Stream!StreamLines), NEW break \in Breaks,
         NEW text, NEW ends, IsText(text, lines, break, ends), NEW m \in 0 .. Len(text),
         NEW d, IsSequence(d), NEW st, Reading(d, st, lines, text, ends, m), ~ st.finished
  PROVE  ClosedAt(d, Stream!UpstreamEnds(st), lines, text, ends, m, "closed")
<1>1. PICK k : /\ At(lines, ends, m, k) /\ Converted(d, st, SubSeq(lines, 1, k))
               /\ st.input = SubSeq(text, ends[k] + 1, m)
  BY DEF Reading
<1> DEFINE past == SubSeq(lines, 1, k)
           after == Stream!UpstreamEnds(st)
           empty == WithInput(st, << >>)
           part == st.input
<1>2. /\ text \in Seq(Pieces) /\ Len(text) \in Nat /\ ends \in [0 .. Len(lines) -> Nat]
      /\ k \in 0 .. Len(lines) /\ ends[k] \in Nat /\ ends[k] <= m /\ ends[Len(lines)] = Len(text)
  BY <1>1 DEF IsText, At
<1>3. Stream!Ending(past) = {} /\ past \in Seq(Stream!StreamLines)
  <2>1. Stream!Ending(past) = {}
    BY <1>1 DEF Converted
  <2>2. past \in Seq(Stream!StreamLines)
    BY <1>2
  <2> QED BY <2>1, <2>2
<1>4. Converted(d, empty, past) /\ ~ empty.finished
  BY <1>1, InputChanges
<1>5. after = Stream!enqueue_done(Stream!consume_sse_line(empty, part))
  BY DEF Stream!UpstreamEnds, WithInput
<1> HIDE DEF past, empty, after
<1>6. CASE m = Len(text)
  <2>1. k = Len(lines)
    <3>1. ASSUME k # Len(lines) PROVE FALSE
      <4>1. m < ends[k + 1] /\ k + 1 \in 0 .. Len(lines)
        BY <1>1, <1>2, <3>1 DEF At
      <4>2. k + 1 = Len(lines) \/ k + 1 < Len(lines)
        BY <1>2, <4>1
      <4>3. ends[k + 1] <= ends[Len(lines)]
        <5>1. CASE k + 1 = Len(lines)
          BY <1>2, <4>1, <5>1
        <5>2. CASE k + 1 < Len(lines)
          <6>1. Len(lines) \in 0 .. Len(lines)
            OBVIOUS
          <6>2. ends[k + 1] < ends[Len(lines)]
            BY <4>1, <5>2, <6>1, EndsIncrease
          <6>3. ends[k + 1] \in Nat /\ ends[Len(lines)] \in Nat
            BY <1>2, <4>1, <6>1
          <6> QED BY <6>2, <6>3
        <5> QED BY <4>2, <5>1, <5>2
      <4> QED BY <1>2, <1>6, <4>1, <4>3
    <3> QED BY <3>1
  <2>2. part = << >>
    <3>1. ends[k] = m
      BY <1>2, <1>6, <2>1
    <3> QED BY <1>1, <1>2, <3>1
  <2>3. Stream!consume_sse_line(empty, part) = empty
    BY <2>2, SilentLine
  <2>4. /\ IsConverter(after) /\ after.finished
        /\ d \o after.output = Append(Stream!Translation(past), Stream!DoneFor(past))
    <3>1. /\ IsConverter(Stream!enqueue_done(empty)) /\ Stream!enqueue_done(empty).finished
          /\ d \o Stream!enqueue_done(empty).output = Append(Stream!Translation(past), Stream!DoneFor(past))
      BY <1>3, <1>4, DoneEnqueued
    <3> QED BY <1>5, <2>3, <3>1
  <2>5. "closed" # "broken"
    OBVIOUS
  <2> QED BY <1>1, <1>3, <2>4, <2>5 DEF ClosedAt, past, after
<1>7. CASE m < Len(text)
  <2>1. /\ k \in 0 .. Len(lines) - 1 /\ lines[k + 1] \in Stream!StreamLines
        /\ m + 1 - ends[k] \in 1 .. Len(Ended(lines[k + 1], break))
        /\ text[m + 1] = Ended(lines[k + 1], break)[m + 1 - ends[k]]
    <3>1. m \in Nat
      BY <1>2
    <3> QED BY <1>1, <1>7, <3>1, NextPiece
  <2> DEFINE line == lines[k + 1]
             whole == Ended(line, break)
  <2>2. \A j \in 1 .. Len(whole) : text[ends[k] + j] = whole[j]
    <3>1. Len(lines) \in Nat /\ k \in 0 .. Len(lines) - 1
      BY <2>1
    <3>2. \A j \in 1 .. Len(Ended(lines[k + 1], break)) :
            text[ends[k] + j] = Ended(lines[k + 1], break)[j]
      BY <3>1, LineAt
    <3> QED BY <3>2
  <2>3. line \in Stream!StreamLines /\ Len(whole) \in 2 .. 5
    BY <2>1, EndedLine
  <2> HIDE DEF line, whole
  <2>4. part \in Seq(Pieces) /\ Len(part) = m - ends[k]
    BY <1>1, <1>2
  <2>5. m + 1 - ends[k] \in 1 .. Len(whole) /\ text[m + 1] = whole[m + 1 - ends[k]]
    BY <2>1 DEF line, whole
  <2>6. /\ m + 1 - ends[k] = Len(part) + 1 /\ Len(part) < Len(whole)
    BY <1>2, <2>3, <2>4, <2>5
  <2>7. ASSUME NEW i \in 1 .. Len(part)
        PROVE  part[i] = whole[i]
    <3>1. part[i] = text[ends[k] + i]
      BY <1>1, <1>2, <2>4
    <3>2. i \in 1 .. Len(whole)
      BY <2>3, <2>4, <2>6
    <3> QED BY <2>2, <3>1, <3>2
  <2> HIDE DEF part
  <2>8. Closed(d, after, past, line, whole[Len(part) + 1])
    <3>1. Closed(d, Stream!enqueue_done(Stream!consume_sse_line(empty, part)), past, line,
                 Ended(line, break)[Len(part) + 1])
      BY <1>3, <1>4, <2>3, <2>4, <2>6, <2>7, LineClosed DEF whole
    <3> QED BY <1>5, <3>1 DEF whole
  <2>9. Closed(d, after, past, line, text[m + 1])
    BY <2>5, <2>6, <2>8
  <2>10. IsConverter(after) /\ after.finished
    BY <2>9 DEF Closed
  <2>11. "closed" # "broken"
    OBVIOUS
  <2> QED BY <1>1, <1>3, <1>7, <2>9, <2>10, <2>11 DEF ClosedAt, past, after, line
<1> QED BY <1>2, <1>6, <1>7

-----------------------------------------------------------------------------
(* The steps of a stream *)

\* What is left of a text after m pieces.
Rest(text, m) == SubSeq(text, m + 1, Len(text))

\* A part of a sequence is a part of what goes on from it.
LEMMA PartOfFirst ==
  ASSUME NEW S, NEW s \in Seq(S), NEW t \in Seq(S), NEW a \in Nat, NEW b \in Nat, b <= Len(s)
  PROVE  SubSeq(s \o t, a + 1, b) = SubSeq(s, a + 1, b)
<1>1. \A i \in 1 .. b - a : (s \o t)[a + i] = s[a + i]
  OBVIOUS
<1>2. SubSeq(s \o t, a + 1, b) = [i \in 1 .. b - a |-> (s \o t)[a + i]]
  OBVIOUS
<1>3. SubSeq(s, a + 1, b) = [i \in 1 .. b - a |-> s[a + i]]
  OBVIOUS
<1> QED BY <1>1, <1>2, <1>3

\* The end of one sequence goes on with the next.
LEMMA EndOfBoth ==
  ASSUME NEW S, NEW s \in Seq(S), NEW t \in Seq(S), NEW m \in 0 .. Len(s)
  PROVE  Rest(s, m) \o t = Rest(s \o t, m)
<1> DEFINE a == Rest(s, m)
           both == s \o t
           c == Rest(both, m)
<1>1. a \in Seq(S) /\ Len(a) = Len(s) - m /\ \A i \in 1 .. Len(s) - m : a[i] = s[m + i]
  BY DEF Rest
<1>2. /\ both \in Seq(S) /\ Len(both) = Len(s) + Len(t)
      /\ \A i \in 1 .. Len(both) : both[i] = IF i <= Len(s) THEN s[i] ELSE t[i - Len(s)]
  OBVIOUS
<1> HIDE DEF both
<1>3. /\ c \in Seq(S) /\ Len(c) = Len(both) - m
      /\ \A i \in 1 .. Len(both) - m : c[i] = both[m + i]
  BY <1>2 DEF Rest
<1> HIDE DEF a, c
<1>4. PICK p \in Nat, q \in Nat : p = Len(s) /\ q = Len(t)
  OBVIOUS
<1>5. m \in 0 .. p /\ Len(a) = p - m /\ Len(both) = p + q /\ Len(c) = p + q - m
  BY <1>1, <1>2, <1>3, <1>4
<1>6. a \o t \in Seq(S) /\ Len(a \o t) = Len(a) + Len(t)
  <2>1. a \in Seq(S)
    BY <1>1
  <2> QED BY <2>1
<1>7. Len(a \o t) = Len(c)
  BY <1>4, <1>5, <1>6
<1>8. ASSUME NEW i \in 1 .. Len(c)
      PROVE  (a \o t)[i] = c[i]
  <2>1. i \in Int /\ 1 <= i /\ i <= p + q - m
    BY <1>5
  <2>2. c[i] = both[m + i] /\ m + i \in 1 .. p + q
    BY <1>3, <1>5, <2>1
  <2>3. CASE i <= p - m
    <3>1. (a \o t)[i] = a[i] /\ a[i] = s[m + i]
      BY <1>1, <1>4, <1>5, <2>1, <2>3
    <3>2. both[m + i] = s[m + i]
      BY <1>2, <1>4, <1>5, <2>2, <2>3
    <3> QED BY <2>2, <3>1, <3>2
  <2>4. CASE i > p - m
    <3>1. (a \o t)[i] = t[i - Len(a)]
      BY <1>1, <1>4, <1>5, <2>1, <2>4
    <3>2. both[m + i] = t[m + i - p]
      BY <1>2, <1>4, <1>5, <2>2, <2>4
    <3>3. i - Len(a) = m + i - p
      BY <1>5, <2>1
    <3> QED BY <2>2, <3>1, <3>2, <3>3
  <2>5. i <= p - m \/ i > p - m
    BY <1>5, <2>1
  <2> QED BY <2>3, <2>4, <2>5
<1>9. a \o t = c
  <2> DEFINE b == a \o t
  <2>1. b \in Seq(S) /\ c \in Seq(S) /\ Len(b) = Len(c) /\ \A i \in 1 .. Len(c) : b[i] = c[i]
    BY <1>3, <1>6, <1>7, <1>8
  <2> HIDE DEF b
  <2>2. b = c
    BY <2>1
  <2> QED BY <2>2 DEF b
<1> QED BY <1>9 DEF a, c, both

\* A line that is written goes to the end of what is left.
LEMMA RestGrows ==
  ASSUME NEW S, NEW text \in Seq(S), NEW m \in 0 .. Len(text), NEW a \in Seq(S), NEW b \in Seq(S)
  PROVE  /\ Rest(text, m) \o a \o b = Rest(text \o (a \o b), m)
         /\ m \in 0 .. Len(text \o (a \o b))
<1> DEFINE more == a \o b
<1>1. more \in Seq(S) /\ Rest(text, m) \in Seq(S)
  BY DEF Rest
<1>2. (Rest(text, m) \o a) \o b = Rest(text, m) \o more
  BY <1>1
<1> HIDE DEF more
<1>3. Rest(text, m) \o more = Rest(text \o more, m)
  BY <1>1, EndOfBoth
<1>4. m \in 0 .. Len(text \o more)
  BY <1>1
<1> QED BY <1>2, <1>3, <1>4 DEF more

\* A chunk is taken from the beginning of what is left.
LEMMA RestShrinks ==
  ASSUME NEW S, NEW text \in Seq(S), NEW m \in 0 .. Len(text), NEW n \in 1 .. Len(Rest(text, m))
  PROVE  /\ m \in Nat /\ m + n \in Nat /\ m <= m + n /\ m + n <= Len(text) /\ m + n \in 0 .. Len(text)
         /\ SubSeq(Rest(text, m), 1, n) = SubSeq(text, m + 1, m + n)
         /\ SubSeq(Rest(text, m), n + 1, Len(Rest(text, m))) = Rest(text, m + n)
<1>1. Len(Rest(text, m)) = Len(text) - m
  BY DEF Rest
<1>2. m \in Nat /\ m + n \in Nat /\ m <= m + n /\ m + n <= Len(text) /\ m + n \in 0 .. Len(text)
  BY <1>1
<1>3. SubSeq(Rest(text, m), 1, n) = SubSeq(text, m + 1, m + n)
  BY <1>1, <1>2 DEF Rest
<1>4. SubSeq(Rest(text, m), n + 1, Len(Rest(text, m))) = Rest(text, m + n)
  BY <1>1, <1>2 DEF Rest
<1> QED BY <1>2, <1>3, <1>4

\* The converter is where it was when the upstream writes another line.
LEMMA ReadingGrows ==
  ASSUME NEW lines \in Seq(Stream!StreamLines), NEW line \in Stream!StreamLines, NEW break \in Breaks,
         NEW text, NEW ends, IsText(text, lines, break, ends), NEW m \in 0 .. Len(text),
         NEW longer, \A k \in 0 .. Len(lines) : longer[k] = ends[k],
         longer[Len(lines) + 1] = ends[Len(lines)] + Len(Ended(line, break)),
         NEW d, NEW st, Reading(d, st, lines, text, ends, m)
  PROVE  Reading(d, st, Append(lines, line), text \o Ended(line, break), longer, m)
<1>1. PICK k : /\ At(lines, ends, m, k)
               /\ Converted(d, st, SubSeq(lines, 1, k))
               /\ ~ st.finished => st.input = SubSeq(text, ends[k] + 1, m)
  BY DEF Reading
<1> DEFINE more == Append(lines, line)
           last == Ended(line, break)
           whole == text \o last
<1>2. /\ text \in Seq(Pieces) /\ ends \in [0 .. Len(lines) -> Nat]
      /\ k \in 0 .. Len(lines) /\ ends[k] \in Nat /\ ends[k] <= m
  BY <1>1 DEF IsText, At
<1>3. last \in Seq(Pieces) /\ Len(last) \in 2 .. 5
  BY EndedLine
<1> HIDE DEF last
<1>4. Len(more) = Len(lines) + 1 /\ SubSeq(more, 1, k) = SubSeq(lines, 1, k)
  BY <1>2
<1> HIDE DEF more
<1>5. longer[k] = ends[k]
  BY <1>2
<1>6. SubSeq(whole, ends[k] + 1, m) = SubSeq(text, ends[k] + 1, m)
  <2>1. m \in Nat /\ m <= Len(text)
    BY <1>2
  <2> QED BY <1>2, <1>3, <2>1, PartOfFirst
<1>7. At(more, longer, m, k)
  <2>1. k \in 0 .. Len(more) /\ k # Len(more)
    BY <1>2, <1>4
  <2>2. m < longer[k + 1]
    <3>1. CASE k = Len(lines)
      <4>1. m = ends[k] /\ longer[k + 1] = ends[k] + Len(last)
        BY <1>1, <3>1 DEF At, last
      <4>2. PICK n \in 2 .. 5 : n = Len(last)
        BY <1>3
      <4>3. longer[k + 1] = m + n /\ m \in Nat
        BY <1>2, <4>1, <4>2
      <4> QED BY <4>3
    <3>2. CASE k # Len(lines)
      <4>1. m < ends[k + 1]
        BY <1>1, <3>2 DEF At
      <4>2. k + 1 \in 0 .. Len(lines)
        BY <1>2, <3>2
      <4> QED BY <4>1, <4>2
    <3> QED BY <3>1, <3>2
  <2> QED BY <1>2, <1>5, <2>1, <2>2 DEF At
<1> HIDE DEF whole
<1> QED BY <1>1, <1>4, <1>5, <1>6, <1>7 DEF Reading, more, whole, last

\* The oldest converted line is handed over.
Handed(st) == [st EXCEPT !.output = Tail(@)]

\* Nothing is lost or written twice when it is.
LEMMA HandedOver ==
  ASSUME NEW d, IsSequence(d), NEW st, IsConverter(st), st.output # << >>
  PROVE  /\ IsSequence(Append(d, Head(st.output))) /\ IsConverter(Handed(st))
         /\ Append(d, Head(st.output)) \o Handed(st).output = d \o st.output
         /\ Handed(st).finished = st.finished /\ Handed(st).input = st.input
         /\ Handed(st).usage = st.usage /\ Handed(st).finish_reason = st.finish_reason
<1> DEFINE out == st.output
<1>1. IsSequence(out) /\ out # << >>
  BY DEF IsConverter
<1>2. /\ DOMAIN Handed(st) = DOMAIN st /\ Handed(st).output = Tail(out)
      /\ Handed(st).finished = st.finished /\ Handed(st).input = st.input
      /\ Handed(st).usage = st.usage /\ Handed(st).finish_reason = st.finish_reason
  BY DEF Handed, IsConverter
<1> HIDE DEF out
<1>3. IsSequence(Tail(out)) /\ Append(d, Head(out)) \o Tail(out) = d \o out
  BY <1>1, HeadMoves
<1>4. IsSequence(Append(d, Head(out)))
  BY AppendIsSequence
<1>5. IsConverter(Handed(st))
  BY <1>2, <1>3 DEF IsConverter
<1> QED BY <1>2, <1>3, <1>4, <1>5 DEF out

\* The converter is where it was.
LEMMA HandingKeepsReading ==
  ASSUME NEW lines, NEW text, NEW ends, NEW m,
         NEW d, IsSequence(d), NEW st, st.output # << >>, Reading(d, st, lines, text, ends, m)
  PROVE  Reading(Append(d, Head(st.output)), Handed(st), lines, text, ends, m)
<1>1. PICK k : /\ At(lines, ends, m, k)
               /\ Converted(d, st, SubSeq(lines, 1, k))
               /\ ~ st.finished => st.input = SubSeq(text, ends[k] + 1, m)
  BY DEF Reading
<1> DEFINE past == SubSeq(lines, 1, k)
           more == Append(d, Head(st.output))
           after == Handed(st)
<1>2. /\ IsConverter(after) /\ more \o after.output = d \o st.output
      /\ after.finished = st.finished /\ after.input = st.input
      /\ after.usage = st.usage /\ after.finish_reason = st.finish_reason
  BY <1>1, HandedOver DEF Converted
<1> HIDE DEF past, more, after
<1>3. Converted(more, after, past)
  BY <1>1, <1>2 DEF Converted, past
<1> QED BY <1>1, <1>2, <1>3 DEF Reading, past, more, after

\* A stream that has ended stays as it is.
LEMMA HandingKeepsClosed ==
  ASSUME NEW lines, NEW text, NEW ends, NEW m, NEW how,
         NEW d, IsSequence(d), NEW st, st.output # << >>, ClosedAt(d, st, lines, text, ends, m, how)
  PROVE  ClosedAt(Append(d, Head(st.output)), Handed(st), lines, text, ends, m, how)
<1> DEFINE more == Append(d, Head(st.output))
           after == Handed(st)
<1>1. IsConverter(st) /\ st.finished
  BY DEF ClosedAt
<1>2. IsConverter(after) /\ more \o after.output = d \o st.output /\ after.finished
  BY <1>1, HandedOver
<1> HIDE DEF more, after
<1>3. \A past, line, next : Closed(d, st, past, line, next) => Closed(more, after, past, line, next)
  BY <1>2 DEF Closed
<1>4. ClosedAt(more, after, lines, text, ends, m, how)
  BY <1>2, <1>3 DEF ClosedAt
<1> QED BY <1>4 DEF more, after

\* A converter that has read nothing.
LEMMA NothingRead ==
  ASSUME NEW break
  PROVE  /\ Reading(<< >>, Stream!OllamaStreamState, << >>, << >>, [k \in {0} |-> 0], 0)
         /\ IsConverter(Stream!OllamaStreamState) /\ IsSequence(<< >>)
<1> DEFINE st == Stream!OllamaStreamState
           ends == [k \in {0} |-> 0]
<1>1. IsSequence(<< >>)
  <2>1. << >> \in Seq({})
    OBVIOUS
  <2> QED BY <2>1 DEF IsSequence
<1>2. /\ IsConverter(st) /\ st.output = << >> /\ ~ st.finished /\ st.input = << >>
      /\ st.finish_reason = "stop" /\ st.usage = [prompt |-> 0, completion |-> 0]
  BY <1>1 DEF Stream!OllamaStreamState, IsConverter
<1> HIDE DEF st
<1>3. Stream!Ending(<< >>) = {}
  BY DEF Stream!Ending
<1>4. Stream!Translation(<< >>) = << >>
  <2>1. << >> \in Seq(Stream!StreamLines)
    OBVIOUS
  <2>2. Stream!Translation(<< >>) = Stream!Messages(<< >>)
    BY <1>3, <2>1, TranslationOf
  <2>3. Stream!Messages(<< >>) = Stream!FlattenSeq(<< >>)
    <3>1. [i \in DOMAIN << >> |-> IF Stream!Speaks(<< >>[i])
                                  THEN << Stream!Message(Stream!JsonEvents[<< >>[i]].delta) >>
                                  ELSE << >>] = << >>
      OBVIOUS
    <3> QED BY <3>1 DEF Stream!Messages
  <2> QED BY <2>2, <2>3, FlattenNothing
<1>5. FinishOf(<< >>) = "stop" /\ CountsOf(<< >>) = [prompt |-> 0, completion |-> 0]
  <2>1. \A values, default : LastValue(<< >>, values, default) = default
    BY DEF LastValue
  <2> QED BY <2>1 DEF FinishOf, CountsOf
<1>6. << >> \o st.output = << >>
  BY <1>2
<1>7. Converted(<< >>, st, << >>)
  BY <1>2, <1>3, <1>4, <1>5, <1>6 DEF Converted
<1>8. At(<< >>, ends, 0, 0) /\ SubSeq(<< >>, 1, 0) = << >> /\ SubSeq(<< >>, ends[0] + 1, 0) = << >>
  BY DEF At
<1> HIDE DEF ends
<1>9. Reading(<< >>, st, << >>, << >>, ends, 0)
  BY <1>2, <1>7, <1>8 DEF Reading
<1> QED BY <1>1, <1>2, <1>9 DEF st, ends

-----------------------------------------------------------------------------
(* The inductive invariant of a stream *)

(***************************************************************************)
(* A stream c has come to position m of its text: a chat client has got    *)
(* the text up to there, and for an Ollama client the converter is reading *)
(* at that position or, once the upstream has ended, has terminated there. *)
(***************************************************************************)
Followed(c, endpoint, d, st, ends, m) ==
  LET text == Stream!TextOf(c.lines, c.break)
  IN  /\ IsText(text, c.lines, c.break, ends)
      /\ m \in 0 .. Len(text)
      /\ c.text = Rest(text, m)
      /\ endpoint = "chat" =>
           /\ d = SubSeq(text, 1, m) \o (IF c.ended = "broken" THEN <<Stream!Piece("broken", 0)>> ELSE << >>)
           /\ st = Stream!OllamaStreamState
      /\ endpoint # "chat" =>
           /\ IsSequence(d)
           /\ c.ended = None => Reading(d, st, c.lines, text, ends, m)
           /\ c.ended # None => ClosedAt(d, st, c.lines, text, ends, m, c.ended)

Connections == [lines : Seq(Stream!StreamLines), text : Seq(Pieces), break : Breaks,
                ended : {None, "closed", "broken"}]

StreamInv ==
  /\ pc \notin {"stream", "answered"} => converter = Stream!OllamaStreamState /\ delivered = << >>
  /\ pc = "stream" =>
       /\ conn \in Connections
       /\ \E ends, m : Followed(conn, call.endpoint, delivered, converter, ends, m)

\* None is no way for a connection to end.
LEMMA EndsDiffer ==
  None # "closed" /\ None # "broken" /\ "closed" # "broken"
BY GatewayAssumption

\* A new stream is at the beginning of an empty text.
LEMMA StreamOpens ==
  ASSUME StreamInv, NEW break \in Breaks, OpenRouterStreams(break)
  PROVE  StreamInv'
<1> DEFINE ends == [k \in {0} |-> 0]
<1>1. /\ pc' = "stream" /\ conn' = [NoConn EXCEPT !.break = break]
      /\ converter' = Stream!OllamaStreamState /\ delivered' = << >>
  BY DEF OpenRouterStreams, StreamInv
<1>2. conn'.lines = << >> /\ conn'.text = << >> /\ conn'.break = break /\ conn'.ended = None
  BY <1>1 DEF NoConn
<1>3. conn' \in Connections
  <2>1. conn' = [lines |-> << >>, text |-> << >>, break |-> break, ended |-> None]
    BY <1>1 DEF NoConn
  <2>2. << >> \in Seq(Stream!StreamLines) /\ << >> \in Seq(Pieces)
    OBVIOUS
  <2> QED BY <2>1, <2>2 DEF Connections
<1>4. Stream!TextOf(conn'.lines, conn'.break) = << >>
  BY <1>2, TextOfNothing
<1>5. IsText(<< >>, << >>, break, ends)
  BY NoText
<1>6. /\ Reading(<< >>, Stream!OllamaStreamState, << >>, << >>, ends, 0)
      /\ IsSequence(<< >>)
  BY NothingRead
<1>7. Rest(<< >>, 0) = << >> /\ 0 \in 0 .. Len(<< >>) /\ SubSeq(<< >>, 1, 0) \o << >> = << >>
  BY DEF Rest
<1> HIDE DEF ends
<1>8. Followed(conn', call'.endpoint, delivered', converter', ends, 0)
  BY <1>1, <1>2, <1>4, <1>5, <1>6, <1>7, EndsDiffer DEF Followed
<1> QED BY <1>1, <1>3, <1>8 DEF StreamInv

\* A line that is written is one more line of the text.
LEMMA StreamGrows ==
  ASSUME StreamInv, NEW line \in Lines, UpstreamWrites(line)
  PROVE  StreamInv'
<1>1. line \in Stream!StreamLines
  BY GatewayAssumption
<1>2. /\ pc = "stream" /\ pc' = "stream" /\ conn.ended = None /\ conn \in Connections
      /\ conn' = [conn EXCEPT !.lines = Append(@, line),
                              !.text = @ \o Stream!LinePieces(line) \o conn.break]
      /\ UNCHANGED <<call, converter, delivered>>
  BY DEF UpstreamWrites, StreamInv
<1>3. PICK ends, m : Followed(conn, call.endpoint, delivered, converter, ends, m)
  BY <1>2 DEF StreamInv
<1> DEFINE lines == conn.lines
           break == conn.break
           rest == conn.text
           text == Stream!TextOf(lines, break)
           pieces == Stream!LinePieces(line)
           last == Ended(line, break)
           more == Append(lines, line)
           whole == Stream!TextOf(more, break)
<1>4. lines \in Seq(Stream!StreamLines) /\ break \in Breaks /\ rest \in Seq(Pieces)
  BY <1>2 DEF Connections
<1>5. /\ conn'.lines = more /\ conn'.text = rest \o pieces \o break /\ conn'.break = break
      /\ conn'.ended = None
      /\ conn' = [lines |-> more, text |-> rest \o pieces \o break, break |-> break, ended |-> None]
  BY <1>2 DEF Connections
<1> HIDE DEF lines, break, rest
<1>6. pieces \in Seq(Pieces) /\ break \in Seq(Pieces) /\ last = pieces \o break
  BY <1>1, <1>4, PlainLine, BreaksAre DEF Ended
<1> HIDE DEF pieces, last
<1>7. whole = text \o last
  BY <1>1, <1>4, TextAppend DEF last
<1> HIDE DEF text, whole
<1>8. /\ IsText(text, lines, break, ends) /\ m \in 0 .. Len(text) /\ rest = Rest(text, m)
      /\ text \in Seq(Pieces)
  BY <1>3 DEF Followed, IsText, text, lines, break, rest
<1>9. PICK longer : /\ IsText(text \o last, more, break, longer)
                    /\ \A k \in 0 .. Len(lines) : longer[k] = ends[k]
                    /\ longer[Len(lines) + 1] = ends[Len(lines)] + Len(last)
  BY <1>1, <1>4, <1>8, TextGrows DEF last
<1>10. rest \o pieces \o break = Rest(whole, m) /\ m \in 0 .. Len(whole)
  <2>1. /\ Rest(text, m) \o pieces \o break = Rest(text \o (pieces \o break), m)
        /\ m \in 0 .. Len(text \o (pieces \o break))
    BY <1>6, <1>8, RestGrows
  <2> QED BY <1>6, <1>7, <1>8, <2>1
<1>11. SubSeq(whole, 1, m) = SubSeq(text, 1, m)
  <2>1. last \in Seq(Pieces) /\ m \in Nat /\ m <= Len(text)
    BY <1>6, <1>8
  <2>2. SubSeq(text \o last, 0 + 1, m) = SubSeq(text, 0 + 1, m)
    BY <1>8, <2>1, PartOfFirst
  <2>3. 0 + 1 = 1
    OBVIOUS
  <2>4. SubSeq(text \o last, 1, m) = SubSeq(text, 1, m)
    BY <2>2, <2>3
  <2> QED BY <1>7, <2>4
<1>12. call.endpoint # "chat" =>
         IsSequence(delivered) /\ Reading(delivered, converter, more, whole, longer, m)
  <2>1. SUFFICES ASSUME call.endpoint # "chat"
                 PROVE  IsSequence(delivered) /\ Reading(delivered, converter, more, whole, longer, m)
    OBVIOUS
  <2>2. IsSequence(delivered) /\ Reading(delivered, converter, lines, text, ends, m)
    BY <1>2, <1>3, <2>1 DEF Followed, text, lines, break
  <2>3. Reading(delivered, converter, Append(lines, line), text \o Ended(line, break), longer, m)
    <3>1. /\ \A k \in 0 .. Len(lines) : longer[k] = ends[k]
          /\ longer[Len(lines) + 1] = ends[Len(lines)] + Len(Ended(line, break))
      BY <1>9 DEF last
    <3> QED BY <1>1, <1>4, <1>8, <2>2, <3>1, ReadingGrows
  <2> QED BY <1>7, <2>2, <2>3 DEF last
<1>13. call.endpoint = "chat" => /\ delivered = SubSeq(text, 1, m) \o << >>
                                /\ converter = Stream!OllamaStreamState
  BY <1>2, <1>3, EndsDiffer DEF Followed, text, lines, break
<1> HIDE DEF more
<1>14. Stream!TextOf(conn'.lines, conn'.break) = whole
  BY <1>5 DEF whole
<1>15. Followed(conn', call'.endpoint, delivered', converter', longer, m)
  BY <1>2, <1>5, <1>7, <1>9, <1>10, <1>11, <1>12, <1>13, <1>14, EndsDiffer DEF Followed
<1>16. conn' \in Connections
  <2>1. more \in Seq(Stream!StreamLines)
    BY <1>1, <1>4 DEF more
  <2>2. rest \o pieces \o break \in Seq(Pieces)
    BY <1>4, <1>6
  <2> QED BY <1>4, <1>5, <2>1, <2>2 DEF Connections
<1> QED BY <1>2, <1>15, <1>16 DEF StreamInv

\* The state of a stream that is being polled.
LEMMA Polled ==
  ASSUME StreamInv, Polling, NEW ends, NEW m,
         Followed(conn, call.endpoint, delivered, converter, ends, m)
  PROVE  LET text == Stream!TextOf(conn.lines, conn.break)
         IN  /\ IsText(text, conn.lines, conn.break, ends) /\ m \in 0 .. Len(text)
             /\ conn.text = Rest(text, m) /\ text \in Seq(Pieces)
             /\ conn.lines \in Seq(Stream!StreamLines) /\ conn.break \in Breaks
             /\ ~ converter.finished
             /\ call.endpoint = "chat" =>
                  delivered = SubSeq(text, 1, m) /\ converter = Stream!OllamaStreamState
             /\ call.endpoint # "chat" =>
                  IsSequence(delivered) /\ Reading(delivered, converter, conn.lines, text, ends, m)
<1> DEFINE text == Stream!TextOf(conn.lines, conn.break)
<1>1. pc = "stream" /\ conn.ended = None /\ ~ converter.finished /\ conn \in Connections
  BY DEF Polling, StreamInv
<1>2. /\ IsText(text, conn.lines, conn.break, ends) /\ m \in 0 .. Len(text)
      /\ conn.text = Rest(text, m)
  BY DEF Followed
<1>3. text \in Seq(Pieces)
  BY <1>2 DEF IsText
<1>4. conn.lines \in Seq(Stream!StreamLines) /\ conn.break \in Breaks
  BY <1>1 DEF Connections
<1>5. ASSUME call.endpoint = "chat"
      PROVE  delivered = SubSeq(text, 1, m) /\ converter = Stream!OllamaStreamState
  <2>1. delivered = SubSeq(text, 1, m) \o << >> /\ converter = Stream!OllamaStreamState
    BY <1>1, <1>5, EndsDiffer DEF Followed
  <2> HIDE DEF text
  <2>2. SubSeq(text, 1, m) \in Seq(Pieces)
    BY <1>2, <1>3
  <2>3. SubSeq(text, 1, m) \o << >> = SubSeq(text, 1, m)
    BY <2>2, NothingAdded DEF IsSequence
  <2> QED BY <2>1, <2>3
<1>6. ASSUME call.endpoint # "chat"
      PROVE  IsSequence(delivered) /\ Reading(delivered, converter, conn.lines, text, ends, m)
  BY <1>1, <1>6 DEF Followed
<1> HIDE DEF text
<1> QED BY <1>1, <1>2, <1>3, <1>4, <1>5, <1>6 DEF text

\* A chunk takes the stream n pieces further.
LEMMA StreamMoves ==
  ASSUME StreamInv, NEW n \in 1 .. Len(conn.text), UpstreamSends(n)
  PROVE  StreamInv'
<1> DEFINE lines == conn.lines
           break == conn.break
           rest == conn.text
           text == Stream!TextOf(lines, break)
           chunk == SubSeq(rest, 1, n)
<1>1. /\ Polling /\ pc = "stream" /\ pc' = "stream" /\ conn.ended = None /\ conn \in Connections
      /\ conn' = [conn EXCEPT !.text = SubSeq(@, n + 1, Len(@))]
      /\ call' = call
      /\ call.endpoint = "chat" => delivered' = delivered \o chunk /\ converter' = converter
      /\ call.endpoint # "chat" =>
           converter' = Stream!ChunkArrives(converter, chunk) /\ delivered' = delivered
  BY DEF UpstreamSends, Polling, StreamInv
<1>2. PICK ends, m : Followed(conn, call.endpoint, delivered, converter, ends, m)
  BY <1>1 DEF StreamInv
<1>3. /\ IsText(text, lines, break, ends) /\ m \in 0 .. Len(text)
      /\ rest = Rest(text, m) /\ text \in Seq(Pieces)
      /\ lines \in Seq(Stream!StreamLines) /\ break \in Breaks /\ ~ converter.finished
      /\ call.endpoint = "chat" =>
           delivered = SubSeq(text, 1, m) /\ converter = Stream!OllamaStreamState
      /\ call.endpoint # "chat" =>
           IsSequence(delivered) /\ Reading(delivered, converter, lines, text, ends, m)
  BY <1>1, <1>2, Polled
<1> DEFINE left == SubSeq(rest, n + 1, Len(rest))
<1>4. /\ conn'.lines = lines /\ conn'.break = break /\ conn'.ended = None /\ conn'.text = left
      /\ conn' = [lines |-> lines, text |-> left, break |-> break, ended |-> None]
  BY <1>1 DEF Connections
<1>5. n \in 1 .. Len(rest)
  OBVIOUS
<1> HIDE DEF lines, break, rest, text
<1>6. /\ m \in Nat /\ m + n \in Nat /\ m <= m + n /\ m + n <= Len(text) /\ m + n \in 0 .. Len(text)
      /\ chunk = SubSeq(text, m + 1, m + n)
      /\ left = Rest(text, m + n)
  <2>1. n \in 1 .. Len(Rest(text, m))
    BY <1>3, <1>5
  <2>2. /\ m \in Nat /\ m + n \in Nat /\ m <= m + n /\ m + n <= Len(text) /\ m + n \in 0 .. Len(text)
        /\ SubSeq(Rest(text, m), 1, n) = SubSeq(text, m + 1, m + n)
        /\ SubSeq(Rest(text, m), n + 1, Len(Rest(text, m))) = Rest(text, m + n)
    BY <1>3, <2>1, RestShrinks
  <2> QED BY <1>3, <2>2
<1> HIDE DEF chunk, left
<1> DEFINE p == m + n
<1>7. p \in Nat /\ m <= p /\ p <= Len(text) /\ p \in 0 .. Len(text) /\ chunk = SubSeq(text, m + 1, p)
      /\ left = Rest(text, p)
  BY <1>6
<1> HIDE DEF p
<1>8. ASSUME call.endpoint = "chat"
      PROVE  delivered' = SubSeq(text, 1, p) \o << >> /\ converter' = Stream!OllamaStreamState
  <2>1. 0 \in Nat /\ 0 <= m
    BY <1>6
  <2>2. SubSeq(text, 0 + 1, m) \o SubSeq(text, m + 1, p) = SubSeq(text, 0 + 1, p)
    BY <1>3, <1>6, <1>7, <2>1, PartsJoin
  <2>3. 0 + 1 = 1
    OBVIOUS
  <2>4. SubSeq(text, 1, m) \o SubSeq(text, m + 1, p) = SubSeq(text, 1, p)
    BY <2>2, <2>3
  <2>5. delivered' = SubSeq(text, 1, p)
    BY <1>1, <1>3, <1>7, <1>8, <2>4
  <2>6. SubSeq(text, 1, p) \in Seq(Pieces)
    BY <1>3, <1>7
  <2>7. SubSeq(text, 1, p) \o << >> = SubSeq(text, 1, p)
    BY <2>6, NothingAdded DEF IsSequence
  <2> QED BY <1>1, <1>3, <1>8, <2>5, <2>7
<1>9. ASSUME call.endpoint # "chat"
      PROVE  IsSequence(delivered') /\ Reading(delivered', converter', lines, text, ends, p)
  <2>1. Reading(delivered, Stream!ChunkArrives(converter, SubSeq(text, m + 1, p)), lines, text, ends, p)
    BY <1>3, <1>6, <1>7, <1>9, ChunkConsumed
  <2> QED BY <1>1, <1>3, <1>7, <1>9, <2>1
<1>10. Stream!TextOf(conn'.lines, conn'.break) = text
  BY <1>4 DEF text
<1>11. Followed(conn', call'.endpoint, delivered', converter', ends, p)
  BY <1>1, <1>3, <1>4, <1>7, <1>8, <1>9, <1>10, EndsDiffer DEF Followed
<1>12. conn' \in Connections
  <2>1. left \in Seq(Pieces)
    BY <1>3, <1>7 DEF Rest
  <2> QED BY <1>3, <1>4, <2>1 DEF Connections
<1> QED BY <1>1, <1>11, <1>12 DEF StreamInv

\* An upstream that ends leaves a terminated stream.
LEMMA StreamCloses ==
  ASSUME StreamInv, UpstreamCloses \/ UpstreamBreaks
  PROVE  StreamInv'
<1> DEFINE lines == conn.lines
           break == conn.break
           text == Stream!TextOf(lines, break)
           how == conn'.ended
<1>1. /\ Polling /\ pc = "stream" /\ pc' = "stream" /\ conn \in Connections
      /\ call' = call
  BY DEF UpstreamCloses, UpstreamBreaks, Polling, StreamInv
<1>2. PICK ends, m : Followed(conn, call.endpoint, delivered, converter, ends, m)
  BY <1>1 DEF StreamInv
<1>3. /\ IsText(text, lines, break, ends) /\ m \in 0 .. Len(text)
      /\ conn.text = Rest(text, m) /\ text \in Seq(Pieces)
      /\ lines \in Seq(Stream!StreamLines) /\ break \in Breaks /\ ~ converter.finished
      /\ call.endpoint = "chat" =>
           delivered = SubSeq(text, 1, m) /\ converter = Stream!OllamaStreamState
      /\ call.endpoint # "chat" =>
           IsSequence(delivered) /\ Reading(delivered, converter, lines, text, ends, m)
  BY <1>1, <1>2, Polled
<1>4. \E x \in {"closed", "broken"} : conn' = [conn EXCEPT !.ended = x]
  BY DEF UpstreamCloses, UpstreamBreaks
<1>5. /\ how \in {"closed", "broken"} /\ conn'.lines = lines /\ conn'.break = break
      /\ conn'.text = conn.text
      /\ conn' \in Connections
  BY <1>1, <1>4 DEF Connections
<1>6. \/ UpstreamCloses /\ how = "closed"
      \/ UpstreamBreaks /\ how = "broken"
  BY <1>1 DEF UpstreamCloses, UpstreamBreaks, Connections
<1> DEFINE said == IF how = "broken" THEN <<Stream!Piece("broken", 0)>> ELSE << >>
<1>7. ASSUME call.endpoint = "chat"
      PROVE  delivered' = SubSeq(text, 1, m) \o said /\ converter' = Stream!OllamaStreamState
  <2>1. SubSeq(text, 1, m) \in Seq(Pieces)
    BY <1>3
  <2>2. IsSequence(SubSeq(text, 1, m))
    BY <2>1 DEF IsSequence
  <2>3. /\ SubSeq(text, 1, m) \o << >> = SubSeq(text, 1, m)
        /\ Append(SubSeq(text, 1, m), Stream!Piece("broken", 0)) =
             SubSeq(text, 1, m) \o <<Stream!Piece("broken", 0)>>
    BY <2>2, NothingAdded, AppendIsSequence
  <2>4. CASE UpstreamCloses /\ how = "closed"
    <3>1. delivered' = delivered /\ converter' = converter
      BY <1>7, <2>4 DEF UpstreamCloses
    <3> QED BY <1>3, <1>7, <2>3, <2>4, <3>1
  <2>5. CASE UpstreamBreaks /\ how = "broken"
    <3>1. delivered' = Append(delivered, Stream!Piece("broken", 0)) /\ converter' = converter
      BY <1>7, <2>5 DEF UpstreamBreaks
    <3> QED BY <1>3, <1>7, <2>3, <2>5, <3>1
  <2> QED BY <1>6, <2>4, <2>5
<1>8. ASSUME call.endpoint # "chat"
      PROVE  IsSequence(delivered') /\ ClosedAt(delivered', converter', lines, text, ends, m, how)
  <2>1. CASE UpstreamCloses /\ how = "closed"
    <3>1. delivered' = delivered /\ converter' = Stream!UpstreamEnds(converter)
      BY <1>8, <2>1 DEF UpstreamCloses
    <3> HIDE DEF lines, break, text, how
    <3>2. ClosedAt(delivered, Stream!UpstreamEnds(converter), lines, text, ends, m, "closed")
      BY <1>3, <1>8, CloseConsumed
    <3> QED BY <1>3, <1>8, <2>1, <3>1, <3>2
  <2>2. CASE UpstreamBreaks /\ how = "broken"
    <3>1. delivered' = delivered /\ converter' = Stream!UpstreamBreaks(converter)
      BY <1>8, <2>2 DEF UpstreamBreaks
    <3> HIDE DEF lines, break, text, how
    <3>2. ClosedAt(delivered, Stream!UpstreamBreaks(converter), lines, text, ends, m, "broken")
      BY <1>3, <1>8, BreakConsumed
    <3> QED BY <1>3, <1>8, <2>2, <3>1, <3>2
  <2> QED BY <1>6, <2>1, <2>2
<1>9. how # None
  BY <1>5, EndsDiffer
<1>10. Stream!TextOf(conn'.lines, conn'.break) = text
  BY <1>5
<1> HIDE DEF lines, break, text
<1>11. Followed(conn', call'.endpoint, delivered', converter', ends, m)
  BY <1>1, <1>3, <1>5, <1>7, <1>8, <1>9, <1>10 DEF Followed
<1> QED BY <1>1, <1>5, <1>11 DEF StreamInv

\* Handing a line over moves it from the converter to the client.
LEMMA StreamDelivers ==
  ASSUME StreamInv, Deliver
  PROVE  StreamInv'
<1> DEFINE text == Stream!TextOf(conn.lines, conn.break)
<1>1. /\ pc = "stream" /\ pc' = "stream" /\ conn \in Connections /\ UNCHANGED <<call, conn>>
      /\ converter.output # << >>
      /\ delivered' = Append(delivered, Head(converter.output))
      /\ converter' = Handed(converter)
  BY DEF Deliver, StreamInv, Handed
<1>2. PICK ends, m : Followed(conn, call.endpoint, delivered, converter, ends, m)
  BY <1>1 DEF StreamInv
<1>3. call.endpoint # "chat"
  <2>1. call.endpoint = "chat" => converter = Stream!OllamaStreamState
    BY <1>2 DEF Followed
  <2>2. Stream!OllamaStreamState.output = << >>
    BY DEF Stream!OllamaStreamState
  <2> QED BY <1>1, <2>1, <2>2
<1>4. IsSequence(delivered)
  BY <1>2, <1>3 DEF Followed
<1>5. IsConverter(converter)
  <2>1. Reading(delivered, converter, conn.lines, text, ends, m)
        \/ ClosedAt(delivered, converter, conn.lines, text, ends, m, conn.ended)
    BY <1>2, <1>3 DEF Followed
  <2> HIDE DEF text
  <2> QED BY <2>1 DEF Reading, ClosedAt, Converted
<1>6. IsSequence(delivered')
  BY <1>1, <1>4, AppendIsSequence
<1>7. ASSUME conn.ended = None
      PROVE  Reading(delivered', converter', conn.lines, text, ends, m)
  <2>1. Reading(delivered, converter, conn.lines, text, ends, m)
    BY <1>2, <1>3, <1>7 DEF Followed
  <2> HIDE DEF text
  <2> QED BY <1>1, <1>4, <2>1, HandingKeepsReading
<1>8. ASSUME conn.ended # None
      PROVE  ClosedAt(delivered', converter', conn.lines, text, ends, m, conn.ended)
  <2>1. ClosedAt(delivered, converter, conn.lines, text, ends, m, conn.ended)
    BY <1>2, <1>3, <1>8 DEF Followed
  <2> HIDE DEF text
  <2> QED BY <1>1, <1>4, <2>1, HandingKeepsClosed
<1>9. /\ IsText(text, conn.lines, conn.break, ends) /\ m \in 0 .. Len(text)
      /\ conn.text = Rest(text, m)
  BY <1>2 DEF Followed
<1>10. Followed(conn', call'.endpoint, delivered', converter', ends, m)
  <2>1. conn' = conn /\ call' = call
    BY <1>1
  <2> QED BY <1>3, <1>6, <1>7, <1>8, <1>9, <2>1 DEF Followed
<1> QED BY <1>1, <1>10 DEF StreamInv

\* What is left begins with the next piece.
LEMMA RestBegins ==
  ASSUME NEW S, NEW text \in Seq(S), NEW m \in Nat, m < Len(text)
  PROVE  Rest(text, m) # << >> /\ Head(Rest(text, m)) = text[m + 1]
<1>1. Len(Rest(text, m)) = Len(text) - m /\ Rest(text, m)[1] = text[m + 1]
  BY DEF Rest
<1>2. Len(Rest(text, m)) > 0
  BY <1>1
<1> QED BY <1>1, <1>2

\* What is not a step of a stream leaves its state alone.
LEMMA ElsewhereKeepsStream ==
  ASSUME StreamInv, pc \notin {"stream", "answered"}, pc' # "stream", UNCHANGED <<converter, delivered>>
  PROVE  StreamInv'
BY DEF StreamInv

\* Every step keeps the invariant of the stream.
LEMMA NextKeepsStream ==
  ASSUME StreamInv, [Next]_vars
  PROVE  StreamInv'
<1>1. ASSUME NEW c \in Calls, Receive(c) PROVE StreamInv'
  BY <1>1, ElsewhereKeepsStream DEF Receive, Respond
<1>2. CASE Lease
  BY <1>2, ElsewhereKeepsStream DEF Lease, ObtainLease, LeaseRefused, LeaseFails, Respond
<1>3. CASE OpenRouter
  <2>1. ASSUME NEW refusal, NEW after, NEW wait, OpenRouterRefuses(refusal, after, wait)
        PROVE  StreamInv'
    BY <2>1, ElsewhereKeepsStream DEF OpenRouterRefuses, Retry, Respond
  <2>2. ASSUME NEW wait, OpenRouterFails(wait) PROVE StreamInv'
    BY <2>2, ElsewhereKeepsStream DEF OpenRouterFails, Retry, Respond
  <2>3. ASSUME NEW payload, OpenRouterAnswers(payload) PROVE StreamInv'
    BY <2>3, ElsewhereKeepsStream DEF OpenRouterAnswers, Respond, RespondWith
  <2>4. ASSUME NEW break \in Breaks, OpenRouterStreams(break) PROVE StreamInv'
    BY <2>4, StreamOpens
  <2> QED BY <1>3, <2>1, <2>2, <2>3, <2>4 DEF OpenRouter, Breaks
<1>4. CASE Post \/ ReplaceKey \/ \E late \in Overruns : Wake(late)
  BY <1>4, ElsewhereKeepsStream DEF Post, ReplaceKey, Wake, Respond
<1>5. CASE Provider
  <2>1. CASE ProviderFails
    BY <2>1, ElsewhereKeepsStream DEF ProviderFails, Respond
  <2>2. CASE EchoProvider
    BY <2>2, ElsewhereKeepsStream DEF EchoProvider, RespondWith
  <2>3. ASSUME NEW header, NEW payload, HttpProxyProvider(header, payload)
        PROVE  StreamInv'
    BY <2>3, ElsewhereKeepsStream DEF HttpProxyProvider, RespondWith
  <2>4. CASE execute_passthrough
    BY <2>4, ElsewhereKeepsStream DEF execute_passthrough, Respond
  <2>5. ASSUME NEW a, NEW payload, MeteredAnswer(a, payload)
        PROVE  StreamInv'
    BY <2>5, ElsewhereKeepsStream DEF MeteredAnswer, RespondWith
  <2> QED BY <1>5, <2>1, <2>2, <2>3, <2>4, <2>5 DEF Provider
<1>6. ASSUME NEW line \in Lines, UpstreamWrites(line) PROVE StreamInv'
  BY <1>6, StreamGrows
<1>7. ASSUME NEW n \in 1 .. Len(conn.text), UpstreamSends(n) PROVE StreamInv'
  BY <1>7, StreamMoves
<1>8. CASE UpstreamCloses \/ UpstreamBreaks
  BY <1>8, StreamCloses
<1>9. CASE Deliver
  BY <1>9, StreamDelivers
<1>10. CASE StreamEnds \/ EndCall
  BY <1>10 DEF StreamEnds, EndCall, Respond, StreamInv
<1>11. CASE UNCHANGED vars
  BY <1>11 DEF vars, StreamInv
<1> QED BY <1>1, <1>2, <1>3, <1>4, <1>5, <1>6, <1>7, <1>8, <1>9, <1>10, <1>11 DEF Next

\* The invariant says what StreamIsFaithful does: the lines that are complete in what was
\* received are the ones before the converter's position.
LEMMA StreamInvIsFaithful ==
  ASSUME StreamInv
  PROVE  StreamIsFaithful
<1>1. SUFFICES ASSUME pc = "stream" PROVE StreamIsFaithful
  BY DEF StreamIsFaithful
<1>2. PICK ends, m : Followed(conn, call.endpoint, delivered, converter, ends, m)
  BY <1>1 DEF StreamInv
<1>3. conn \in Connections
  BY <1>1 DEF StreamInv
<1> DEFINE lines == conn.lines
           break == conn.break
           whole == Stream!TextOf(lines, break)
           received == SubSeq(whole, 1, Len(whole) - Len(conn.text))
           complete == SubSeq(lines, 1, Cardinality({i \in DOMAIN received : received[i] = Stream!NewLine}))
           produced == delivered \o converter.output
           line == lines[Len(complete) + 1]
           said == Stream!Translation(complete)
           one == Stream!Translation(Append(complete, line))
           over == Stream!Ending(complete) # {}
<1>4. /\ IsText(whole, lines, break, ends) /\ m \in 0 .. Len(whole) /\ conn.text = Rest(whole, m)
      /\ lines \in Seq(Stream!StreamLines) /\ break \in Breaks
      /\ conn.ended \in {None, "closed", "broken"}
  BY <1>2, <1>3 DEF Followed, Connections
<1>5. whole \in Seq(Pieces)
  BY <1>4 DEF IsText
<1> HIDE DEF whole
<1>6. Len(whole) - Len(conn.text) = m /\ m \in Nat
  <2>1. Len(Rest(whole, m)) = Len(whole) - m
    BY <1>4, <1>5 DEF Rest
  <2> QED BY <1>4, <1>5, <2>1
<1>7. /\ received = SubSeq(whole, 1, m) /\ DOMAIN received = 1 .. m
      /\ \A i \in 1 .. m : received[i] = whole[i]
  BY <1>4, <1>5, <1>6
<1>8. CASE call.endpoint = "chat"
  <2>1. /\ delivered = SubSeq(whole, 1, m) \o (IF conn.ended = "broken" THEN <<Stream!Piece("broken", 0)>> ELSE << >>)
        /\ converter = Stream!OllamaStreamState
    BY <1>2, <1>8 DEF Followed, whole
  <2>2. converter.output = << >>
    BY <2>1 DEF Stream!OllamaStreamState
  <2>3. IsSequence(delivered)
    <3>1. SubSeq(whole, 1, m) \in Seq(Pieces)
      BY <1>5, <1>6, <1>4
    <3>2. IsSequence(SubSeq(whole, 1, m))
      BY <3>1 DEF IsSequence
    <3>3. IsSequence(<<Stream!Piece("broken", 0)>>) /\ IsSequence(<< >>)
      <4>1. <<Stream!Piece("broken", 0)>> \in Seq({Stream!Piece("broken", 0)}) /\ << >> \in Seq({})
        OBVIOUS
      <4> QED BY <4>1 DEF IsSequence
    <3> QED BY <2>1, <3>2, <3>3, ConcatIsSequence
  <2>4. produced = delivered
    BY <2>2, <2>3, NothingAdded
  <2> HIDE DEF received, produced
  <2>5. produced = received \o (IF conn.ended = "broken" THEN <<Stream!Piece("broken", 0)>> ELSE << >>)
    BY <1>7, <2>1, <2>4
  <2> QED BY <1>8, <2>5 DEF StreamIsFaithful, received, produced, whole
<1>9. CASE call.endpoint # "chat"
  <2>1. ASSUME NEW k, At(lines, ends, m, k)
        PROVE  complete = SubSeq(lines, 1, k) /\ Len(complete) = k
    <3>1. Cardinality({i \in 1 .. m : whole[i] = Stream!NewLine}) = k
      BY <1>4, <2>1, NewLinesCount
    <3>2. {i \in DOMAIN received : received[i] = Stream!NewLine} = {i \in 1 .. m : whole[i] = Stream!NewLine}
      BY <1>7
    <3>3. k \in 0 .. Len(lines)
      BY <2>1 DEF At
    <3>4. complete = SubSeq(lines, 1, k)
      BY <3>1, <3>2
    <3> HIDE DEF complete
    <3> QED BY <1>4, <3>3, <3>4
  <2>2. SUFFICES CASE conn.ended = None \/ over -> produced = said
                   [] conn.ended = "broken" /\ ~ over -> produced = Append(said, Stream!BrokenItem)
                   [] conn.ended = "closed" /\ ~ over ->
                        \/ produced = Append(said, Stream!DoneFor(complete))
                        \/ conn.text # << >> /\ produced = Append(said, Stream!BrokenItem)
                        \/ /\ conn.text # << >>
                           /\ Head(conn.text) \in {Stream!Return, Stream!NewLine}
                           /\ produced \in {one, Append(one, Stream!DoneFor(Append(complete, line)))}
    BY <1>9, Zenon DEF StreamIsFaithful, whole
  <2> HIDE DEF complete, produced
  <2>3. CASE conn.ended = None
    <3>1. PICK k : At(lines, ends, m, k) /\ Converted(delivered, converter, SubSeq(lines, 1, k))
      BY <1>2, <1>9, <2>3 DEF Followed, Reading
    <3>2. produced = said
      BY <2>1, <3>1 DEF Converted, produced
    <3> QED BY <2>3, <3>2, EndsDiffer
  <2>4. CASE conn.ended # None
    <3>1. ClosedAt(delivered, converter, lines, whole, ends, m, conn.ended)
      BY <1>2, <1>9, <2>4 DEF Followed, whole
    <3>2. PICK k : /\ At(lines, ends, m, k)
                   /\ Stream!Ending(SubSeq(lines, 1, k)) = {}
                   /\ conn.ended = "broken" =>
                        produced = Append(Stream!Translation(SubSeq(lines, 1, k)), Stream!BrokenItem)
                   /\ conn.ended = "closed" =>
                        \/ produced = Append(Stream!Translation(SubSeq(lines, 1, k)),
                                             Stream!DoneFor(SubSeq(lines, 1, k)))
                        \/ /\ m < Len(whole)
                           /\ Closed(delivered, converter, SubSeq(lines, 1, k), lines[k + 1], whole[m + 1])
      BY <3>1 DEF ClosedAt, produced
    <3>3. complete = SubSeq(lines, 1, k) /\ Len(complete) = k
      BY <2>1, <3>2
    <3>4. ~ over
      BY <3>2, <3>3
    <3>5. CASE conn.ended = "broken"
      BY <3>2, <3>3, <3>4, <3>5, EndsDiffer
    <3>6. CASE conn.ended = "closed"
      <4>1. ASSUME m < Len(whole) PROVE conn.text # << >> /\ Head(conn.text) = whole[m + 1]
        <5>1. Rest(whole, m) # << >> /\ Head(Rest(whole, m)) = whole[m + 1]
          BY <1>5, <1>6, <4>1, RestBegins
        <5> QED BY <1>4, <5>1
      <4>2. \/ produced = Append(said, Stream!DoneFor(complete))
            \/ m < Len(whole) /\ Closed(delivered, converter, complete, line, whole[m + 1])
        BY <3>2, <3>3, <3>6
      <4>3. \/ produced = Append(said, Stream!DoneFor(complete))
            \/ conn.text # << >> /\ produced = Append(said, Stream!BrokenItem)
            \/ /\ conn.text # << >>
               /\ Head(conn.text) \in {Stream!Return, Stream!NewLine}
               /\ produced \in {one, Append(one, Stream!DoneFor(Append(complete, line)))}
        BY <4>1, <4>2 DEF Closed, produced
      <4> QED BY <3>4, <3>6, <4>3, EndsDiffer
    <3> QED BY <1>4, <2>4, <3>5, <3>6
  <2> QED BY <2>3, <2>4
<1> QED BY <1>8, <1>9

\* However the upstream's bytes are cut into chunks, and wherever the connection closes or
\* breaks, an Ollama client gets the messages of the complete lines in their order and one
\* terminator at the end, and a chat client the bytes as they are (OllamaStreamState), for
\* every number of lines and every chunk size.
THEOREM GatewayStreamIsFaithful == Spec => []StreamIsFaithful
<1>1. Init => StreamInv
  BY DEF Init, StreamInv
<1>2. StreamInv /\ [Next]_vars => StreamInv'
  BY NextKeepsStream
<1>3. StreamInv => StreamIsFaithful
  BY StreamInvIsFaithful
<1> QED BY <1>1, <1>2, <1>3, PTL DEF Spec

=============================================================================
