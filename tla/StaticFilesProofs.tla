---------------------------- MODULE StaticFilesProofs ----------------------------
(***************************************************************************)
(* Proofs about StaticFiles, for any files and changes, any requests and   *)
(* any width of the numbers.                                               *)
(***************************************************************************)
EXTENDS StaticFiles, TLAPS

(* Numbers that wrap.                                                      *)

LEMMA ArithmeticType ==
  ASSUME NEW x \in Number, NEW y \in Number
  PROVE  Plus(x, y) \in Number /\ Minus(x, y) \in Number
BY ModulusAssumption DEF Number, Plus, Minus

\* The length of a range, and of the fragment that is set for it.
LEMMA FragmentLength ==
  ASSUME NEW f \in Number, NEW l \in Number
  PROVE  Minus(Plus(l, 1), f) = Plus(Minus(l, f), 1)
BY ModulusAssumption DEF Number, Plus, Minus

\* A range has its ends among the numbers, whatever wraps.
LEMMA RangeType ==
  ASSUME NEW n \in Number, NEW piece \in Piece
  PROVE  First(n, piece) \in Number /\ Last(n, piece) \in Number
<1>1. 1 \in Number
  BY ModulusAssumption DEF Number
<1>2. piece.a \in Number /\ piece.b \in Number
  BY DEF Piece
<1> QED
  BY <1>1, <1>2, ArithmeticType DEF First, Last

\* Whatever is behind an extension, its type is one of the table's or the default.
LEMMA TypesAreNames ==
  ASSUME NEW ext
  PROVE  MimeTypes(ext) \subseteq TypeNames
<1> SUFFICES ASSUME NEW number PROVE Lookup(number) \in TypeNames
  BY DEF MimeTypes
<1> DEFINE found == {e \in DOMAIN Types : Template(Literal(e)) = number}
<1>1. CASE found = {}
  BY <1>1 DEF Lookup, TypeNames
<1>2. CASE found # {}
  <2>1. (CHOOSE e \in found : TRUE) \in DOMAIN Types
    BY <1>2
  <2> QED
    BY <1>2, <2>1 DEF Lookup, TypeNames
<1> QED
  BY <1>1, <1>2

\* Folding tells letters and digits apart, but for the case of letters, and from the
\* zero that ends or fills up a text.
LEMMA FoldsCase ==
  ASSUME NEW c \in LowerCase \cup Digit, NEW d \in LowerCase \cup UpperCase \cup Digit
  PROVE  /\ Folded(c) = Folded(d) <=> c = Lower(d)
         /\ Folded(c) # Folded(0) /\ Folded(d) # Folded(0)
BY DEF Folded, Lower, LowerCase, UpperCase, Digit

LEMMA SeqEqual ==
  ASSUME NEW S, NEW x \in Seq(S), NEW y \in Seq(S), Len(x) = Len(y),
         \A k \in 1..Len(x) : x[k] = y[k]
  PROVE  x = y
OBVIOUS

LEMMA UpToFour ==
  ASSUME NEW n \in Nat, ~(n > 4)
  PROVE  n \in 0..4
OBVIOUS

LEMMA NextIndex ==
  ASSUME NEW m \in Nat, NEW n \in 0..4, m < n
  PROVE  m + 1 \in 1..4 /\ m + 1 \in 1..n
OBVIOUS

\* What counts of an extension.
Four(ext) == IF Len(ext) > 4 THEN SubSeq(ext, 1, 4) ELSE ext

Alphanumeric(ext) == \A k \in DOMAIN ext : ext[k] \in LowerCase \cup UpperCase \cup Digit

LEMMA FourOf ==
  ASSUME NEW ext \in Seq(Byte)
  PROVE  /\ Four(ext) \in Seq(Byte) /\ Len(Four(ext)) \in 0..4
         /\ \A k \in 1..Len(Four(ext)) : Four(ext)[k] = ext[k]
         /\ Len(ext) <= 4 => Len(Four(ext)) = Len(ext)
         /\ Len(ext) > 4 => Len(Four(ext)) = 4
<1>1. CASE Len(ext) > 4
  <2>1. Four(ext) = SubSeq(ext, 1, 4)
    BY <1>1 DEF Four
  <2>2. /\ SubSeq(ext, 1, 4) \in Seq(Byte) /\ Len(SubSeq(ext, 1, 4)) = 4
        /\ \A k \in 1..4 : SubSeq(ext, 1, 4)[k] = ext[k]
    BY <1>1
  <2> QED
    BY <1>1, <2>1, <2>2
<1>2. CASE ~(Len(ext) > 4)
  <2>1. Four(ext) = ext
    BY <1>2 DEF Four
  <2>2. Len(ext) \in 0..4
    <3>1. Len(ext) \in Nat
      OBVIOUS
    <3> QED
      BY <1>2, <3>1, UpToFour
  <2> QED
    BY <1>2, <2>1, <2>2
<1> QED
  BY <1>1, <1>2

\* Only the entry that an extension means has its number, if there are two
\* characters behind which a zero may lie; and a shorter one has no other's.
LEMMA SameNumber ==
  ASSUME NEW e \in DOMAIN Types, NEW ext \in Seq(Byte), NEW behind,
         Alphanumeric(Four(ext))
  PROVE  LET same == Template(Literal(e)) = Template(Read(ext, behind))
         IN  /\ same => Means(e, Four(ext))
             /\ Len(ext) >= 3 /\ Means(e, Four(ext)) => same
<1> DEFINE four == Four(ext)
           lit == Literal(e)
           read == Read(ext, behind)
<1>1. /\ e \in Seq(LowerCase \cup Digit) /\ Len(e) \in 1..4
      /\ \A k \in 1..Len(e) : e[k] \in LowerCase \cup Digit
  BY TypesAssumption
<1>2. /\ four \in Seq(Byte) /\ Len(four) \in 0..4 /\ DOMAIN four = 1..Len(four)
      /\ \A k \in 1..Len(four) : four[k] = ext[k]
      /\ Len(ext) \in Nat /\ (Len(ext) <= 4 => Len(four) = Len(ext)) /\ (Len(ext) > 4 => Len(four) = 4)
  BY FourOf
<1>3. \A k \in 1..Len(four) : four[k] \in LowerCase \cup UpperCase \cup Digit
  BY <1>2 DEF Alphanumeric
<1>4. \A k \in 1..4 : /\ k <= Len(e) => lit[k] = e[k]
                      /\ k > Len(e) => lit[k] = 0
                      /\ k <= Len(four) => read[k] = four[k]
                      /\ k = Len(four) + 1 => read[k] = 0
  BY <1>1, <1>2 DEF Literal, Read
<1>5. Means(e, four) <=>
        Len(e) = Len(four) /\ \A k \in 1..Len(four) : e[k] = Lower(four[k])
  BY <1>2 DEF Means
<1>6. Template(lit) = Template(read) <=> \A k \in 1..4 : Folded(lit[k]) = Folded(read[k])
  <2>1. ASSUME Template(lit) = Template(read), NEW k \in 1..4
        PROVE  Folded(lit[k]) = Folded(read[k])
    <3>1. Template(lit)[k] = Folded(lit[k]) /\ Template(read)[k] = Folded(read[k])
      BY DEF Template
    <3> QED
      BY <2>1, <3>1
  <2>2. ASSUME \A k \in 1..4 : Folded(lit[k]) = Folded(read[k])
        PROVE  Template(lit) = Template(read)
    BY <2>2 DEF Template
  <2> QED
    BY <2>1, <2>2
<1> HIDE DEF four, lit, read
<1>7. ASSUME \A k \in 1..4 : Folded(lit[k]) = Folded(read[k])
      PROVE  Means(e, four)
  <2>1. Len(e) <= Len(four)
    <3> SUFFICES ASSUME Len(four) < Len(e) PROVE FALSE
      BY <1>1, <1>2
    <3> DEFINE k == Len(four) + 1
    <3>1. k \in 1..4 /\ k \in 1..Len(e)
      BY <1>1, <1>2
    <3>2. lit[k] = e[k] /\ read[k] = 0 /\ e[k] \in LowerCase \cup Digit
      BY <1>1, <1>4, <3>1
    <3>3. Folded(e[k]) # Folded(0)
      BY <3>2, FoldsCase DEF Digit
    <3> QED
      BY <1>7, <3>1, <3>2, <3>3
  <2>2. Len(four) <= Len(e)
    <3> SUFFICES ASSUME Len(e) < Len(four) PROVE FALSE
      BY <1>1, <1>2
    <3> DEFINE k == Len(e) + 1
    <3>0. Len(e) \in Nat /\ Len(four) \in 0..4 /\ Len(e) < Len(four)
      BY <1>1, <1>2
    <3>1. k \in 1..4 /\ k \in 1..Len(four)
      BY <3>0, NextIndex
    <3>2. lit[k] = 0 /\ read[k] = four[k] /\ four[k] \in LowerCase \cup UpperCase \cup Digit
      BY <1>1, <1>3, <1>4, <3>1
    <3>3. 97 \in LowerCase \cup Digit
      BY DEF LowerCase
    <3>4. Folded(four[k]) # Folded(0)
      BY <3>2, <3>3, FoldsCase
    <3> QED
      BY <1>7, <3>1, <3>2, <3>4
  <2>3. Len(e) = Len(four)
    BY <1>1, <1>2, <2>1, <2>2
  <2>4. ASSUME NEW k \in 1..Len(four) PROVE e[k] = Lower(four[k])
    <3>1. k \in 1..4 /\ k \in 1..Len(e) /\ lit[k] = e[k] /\ read[k] = four[k]
      BY <1>2, <1>4, <2>3
    <3>2. /\ e[k] \in LowerCase \cup Digit
          /\ four[k] \in LowerCase \cup UpperCase \cup Digit
      BY <1>1, <1>3, <3>1
    <3> QED
      BY <1>7, <3>1, <3>2, FoldsCase
  <2> QED
    BY <1>5, <2>3, <2>4
<1>8. ASSUME Len(ext) >= 3, Means(e, four), NEW k \in 1..4
      PROVE  Folded(lit[k]) = Folded(read[k])
  <2>1. Len(e) = Len(four) /\ Len(four) >= 3
    BY <1>2, <1>5, <1>8
  <2>2. CASE k <= Len(four)
    <3>1. k \in 1..Len(four) /\ lit[k] = e[k] /\ read[k] = four[k]
      BY <1>4, <2>1, <2>2
    <3>2. /\ e[k] = Lower(four[k])
          /\ e[k] \in LowerCase \cup Digit
          /\ four[k] \in LowerCase \cup UpperCase \cup Digit
      BY <1>1, <1>3, <1>5, <1>8, <2>1, <3>1
    <3> QED
      BY <3>1, <3>2, FoldsCase
  <2>3. CASE k > Len(four)
    <3>1. k = Len(four) + 1
      BY <1>2, <2>1, <2>3
    <3> QED
      BY <1>4, <2>1, <2>3, <3>1
  <2> QED
    BY <1>2, <2>2, <2>3
<1> QED
  BY <1>6, <1>7, <1>8 DEF four, lit, read

\* A range that is present lies in the file, if there is a byte in it.
LEMMA PresentInFile ==
  ASSUME NEW n \in Number, n # 0, NEW piece \in Piece, Present(n, piece)
  PROVE  First(n, piece) <= Last(n, piece) /\ Last(n, piece) < n
<1>1. Minus(n, 1) = n - 1
  BY DEF Minus, Number
<1>2. piece.b \in Number
  BY DEF Piece
<1>3. Last(n, piece) <= n - 1 /\ Last(n, piece) \in Int
  BY <1>1, <1>2, ModulusAssumption DEF Last, Number
<1> QED
  BY <1>3, ModulusAssumption DEF Present, Number

\* What a piece names is what the code makes its range, if it makes one at all,
\* where no number wraps.
LEMMA NamedRange ==
  ASSUME NEW n \in Number, NEW piece \in Piece, ~Wraps(n, piece)
  PROVE  /\ Present(n, piece) => First(n, piece)..Last(n, piece) = Named(n, piece)
         /\ Present(n, piece) <=> Named(n, piece) # {}
<1>1. n \in Nat /\ n # 0 /\ Minus(n, 1) = n - 1
  BY ModulusAssumption DEF Wraps, Minus, Number
<1>2. piece.a \in Nat /\ piece.b \in Nat
  BY ModulusAssumption DEF Piece, Number
<1>3. CASE piece.kind = "suffix"
  <2>1. First(n, piece) = n - piece.b /\ Last(n, piece) = n - 1 /\ piece.b <= n
    BY <1>1, <1>2, <1>3 DEF First, Last, Minus, Wraps
  <2>2. Named(n, piece) = {p \in 0..(n - 1) : p >= n - piece.b}
    BY <1>3 DEF Named
  <2>3. Named(n, piece) = (n - piece.b)..(n - 1)
    BY <1>1, <1>2, <2>1, <2>2
  <2>4. Present(n, piece) <=> n - piece.b <= n - 1
    BY <1>3, <2>1 DEF Present
  <2>5. n - piece.b <= n - 1 <=> (n - piece.b)..(n - 1) # {}
    BY <1>1, <1>2
  <2> QED
    BY <2>1, <2>3, <2>4, <2>5
<1>4. CASE piece.kind = "from"
  <2>1. First(n, piece) = piece.a /\ Last(n, piece) = n - 1
    BY <1>1, <1>4 DEF First, Last
  <2>2. Named(n, piece) = {p \in 0..(n - 1) : p >= piece.a}
    BY <1>4 DEF Named
  <2>3. Named(n, piece) = piece.a..(n - 1)
    BY <1>1, <1>2, <2>2
  <2>4. Present(n, piece) <=> piece.a <= n - 1
    BY <1>4, <2>1 DEF Present
  <2>5. piece.a <= n - 1 <=> piece.a..(n - 1) # {}
    BY <1>1, <1>2
  <2> QED
    BY <2>1, <2>3, <2>4, <2>5
<1>5. CASE piece.kind = "span"
  <2> DEFINE l == IF piece.b <= n - 1 THEN piece.b ELSE n - 1
  <2>1. First(n, piece) = piece.a /\ Last(n, piece) = l
    BY <1>1, <1>5 DEF First, Last
  <2>2. Named(n, piece) = {p \in 0..(n - 1) : piece.a <= p /\ p <= piece.b}
    BY <1>5 DEF Named
  <2>3. Named(n, piece) = piece.a..l /\ l \in Int
    BY <1>1, <1>2, <2>2
  <2>4. Present(n, piece) <=> piece.a <= l
    BY <1>5, <2>1 DEF Present
  <2>5. piece.a <= l <=> piece.a..l # {}
    BY <1>2, <2>3
  <2> HIDE DEF l
  <2> QED
    BY <2>1, <2>3, <2>4, <2>5
<1>6. CASE piece.kind = "unreadable"
  BY <1>6 DEF Named, Present
<1> QED
  BY <1>3, <1>4, <1>5, <1>6 DEF Piece

\* What the table gives for an extension of letters and digits.
LEMMA TypeFound ==
  ASSUME NEW ext \in Seq(Byte), Alphanumeric(Four(ext)), NEW type \in MimeTypes(ext)
  PROVE  /\ type \in {TypeOf(Four(ext)), OctetStream}
         /\ Len(ext) >= 3 => type = TypeOf(Four(ext))
<1>1. PICK behind \in [2..4 -> Memory] : type = Lookup(Template(Read(ext, behind)))
  BY DEF MimeTypes
<1> DEFINE found == {e \in DOMAIN Types : Template(Literal(e)) = Template(Read(ext, behind))}
           meant == {e \in DOMAIN Types : Means(e, Four(ext))}
<1>2. found \subseteq meant
  BY SameNumber
<1>3. Len(ext) >= 3 => found = meant
  BY SameNumber
<1>4. ASSUME NEW x \in meant, NEW y \in meant PROVE x = y
  <2>1. /\ x \in Seq(LowerCase \cup Digit) /\ y \in Seq(LowerCase \cup Digit)
        /\ Len(x) = Len(Four(ext)) /\ Len(y) = Len(Four(ext))
        /\ \A k \in DOMAIN Four(ext) : x[k] = Lower(Four(ext)[k]) /\ y[k] = Lower(Four(ext)[k])
    BY <1>4, TypesAssumption DEF Means
  <2>2. DOMAIN Four(ext) = 1..Len(Four(ext))
    BY FourOf
  <2>3. \A k \in 1..Len(x) : x[k] = y[k]
    BY <2>1, <2>2
  <2> QED
    BY <2>1, <2>3, SeqEqual
<1>5. CASE found = {}
  <2>1. type = OctetStream
    BY <1>1, <1>5 DEF Lookup
  <2>2. Len(ext) >= 3 => TypeOf(Four(ext)) = OctetStream
    BY <1>3, <1>5 DEF TypeOf
  <2> QED
    BY <2>1, <2>2
<1>6. CASE found # {}
  <2>1. (CHOOSE e \in found : TRUE) \in found /\ (CHOOSE e \in meant : TRUE) \in meant
    BY <1>2, <1>6
  <2>2. (CHOOSE e \in found : TRUE) = (CHOOSE e \in meant : TRUE)
    BY <1>2, <1>4, <2>1
  <2>3. type = Types[CHOOSE e \in found : TRUE]
    BY <1>1, <1>6 DEF Lookup
  <2>4. TypeOf(Four(ext)) = Types[CHOOSE e \in meant : TRUE]
    BY <1>2, <1>6 DEF TypeOf
  <2> QED
    BY <2>2, <2>3, <2>4
<1> QED
  BY <1>5, <1>6

--------------------------------------------------------------------------------
(* The invariant.                                                          *)

Start == IF resp.range = <<>> THEN 0 ELSE resp.range[1]

\* Nothing is answered while the file is looked for.
Unanswered ==
  pc \notin {"writing", "finished", "cut"} => resp = Fresh

\* The fragment is the file until a range of it is set.
FragmentSet ==
  pc \in {"date", "answer"} => first = 0 /\ last = size

\* Only a file is written.
WritesFile == pc = "writing" => resp.body = "file"

\* What was written and what remains are what the header promised.
Accounted ==
  resp.body = "file" =>
    /\ pc \in {"writing", "finished", "cut"}
    /\ resp.length = sent + remain
    /\ pos = Plus(Start, sent)
    /\ build = "generic" /\ sent > 0 => at = pos
    /\ pc = "finished" /\ (build = "generic" \/ size # 0) => remain = 0

\* In a file that has a byte the writer comes to the end of the fragment without
\* a number that wraps: comparing positions and counting come to the same.
Ordered ==
  resp.body = "file" /\ size # 0 => pos <= last /\ remain = last - pos

\* The type is one that was found for the extension.
Typed == resp.body \in {"empty", "file"} => resp.type \in MimeTypes(req.extension)

IInv ==
  /\ TypeOK /\ Unanswered /\ FragmentSet /\ WritesFile /\ Accounted /\ Ordered
  /\ RangeInFile /\ Typed

LEMMA InitIInv == Init => IInv
<1> SUFFICES ASSUME Init PROVE IInv
  OBVIOUS
<1>1. 0 \in Number
  BY ModulusAssumption DEF Number
<1>2. Fresh \in Response
  BY <1>1 DEF Fresh, Response, None
<1>3. TypeOK
  BY <1>1, <1>2, FilesAssumption DEF Init, TypeOK
<1> QED
  BY <1>3 DEF Init, IInv, Unanswered, FragmentSet, WritesFile, Accounted, Ordered, RangeInFile, Typed, Fresh

\* What a step keeps that neither answers nor writes.
LEMMA SameAnswer ==
  ASSUME IInv, TypeOK', UNCHANGED <<build, req, resp, size, fragment, writer>>,
         pc \in {"writing", "finished", "cut"} => pc' = pc,
         pc' \in {"writing", "finished", "cut"} => pc' = pc,
         pc' \in {"date", "answer"} => first' = 0 /\ last' = size'
  PROVE  IInv'
<1>1. Unanswered' /\ FragmentSet' /\ WritesFile'
  BY DEF IInv, Unanswered, FragmentSet, WritesFile
<1>2. Accounted' /\ Ordered'
  BY DEF IInv, WritesFile, Accounted, Ordered, Start, fragment, writer
<1>3. RangeInFile' /\ Typed'
  BY DEF IInv, RangeInFile, Typed
<1> QED
  BY <1>1, <1>2, <1>3 DEF IInv

\* Before the answer there is no body.
LEMMA NoBody ==
  ASSUME IInv, pc \notin {"writing", "finished", "cut"}
  PROVE  resp = Fresh /\ resp.body \notin {"empty", "file"} /\ resp.status # 206
<1>1. resp = Fresh
  BY DEF IInv, Unanswered
<1>2. Fresh.body \notin {"empty", "file"} /\ Fresh.status # 206
  BY DEF Fresh
<1> QED
  BY <1>1, <1>2

LEMMA DatesAreNat == Dates \cup {0} \subseteq Nat
BY FilesAssumption

LEMMA EntryFacts ==
  ASSUME NEW e \in Entry
  PROVE  /\ e.length \in Number
         /\ e.date \in Dates \cup {0}
         /\ e.kind = "file" => e.length \in Lengths
<1>1. 0 \in Number /\ Lengths \subseteq Number
  BY FilesAssumption, ModulusAssumption DEF Number
<1>2. CASE e \in [kind : {"nothing"}, length : {0}, date : {0}]
  BY <1>1, <1>2
<1>3. CASE e \in [kind : {"directory"}, length : {0}, date : Dates]
  BY <1>1, <1>3
<1>4. CASE e \in [kind : {"file"}, length : Lengths, date : Dates]
  BY <1>1, <1>4
<1> QED
  BY <1>2, <1>3, <1>4 DEF Entry

LEMMA PathEntry ==
  ASSUME TypeOK
  PROVE  Path \in Entry
BY FilesAssumption DEF TypeOK, Path

\* The step of a handler that has not answered and does not answer.
LEMMA Searching ==
  ASSUME IInv, TypeOK', resp' = resp,
         pc \in {"expand", "status", "open", "date"},
         pc' \notin {"writing", "finished", "cut"},
         pc' \in {"date", "answer"} => first' = 0 /\ last' = size'
  PROVE  IInv'
<1>1. resp = Fresh /\ resp.body \notin {"empty", "file"} /\ resp.status # 206
  BY NoBody
<1>2. Unanswered' /\ FragmentSet' /\ WritesFile'
  BY <1>1 DEF Unanswered, FragmentSet, WritesFile
<1>3. Accounted' /\ Ordered' /\ RangeInFile' /\ Typed'
  BY <1>1 DEF WritesFile, Accounted, Ordered, RangeInFile, Typed
<1> QED
  BY <1>2, <1>3 DEF IInv

--------------------------------------------------------------------------------
(* The steps.                                                              *)

LEMMA ThrowStep == IInv /\ Throw => IInv'
<1> SUFFICES ASSUME IInv, Throw PROVE IInv'
  OBVIOUS
<1>1. TypeOK'
  BY DEF IInv, TypeOK, Throw, files, fragment, writer
<1> QED
  BY <1>1, Searching DEF Throw, fragment, writer

LEMMA AskStep == IInv /\ Ask => IInv'
<1> SUFFICES ASSUME IInv, Ask PROVE IInv'
  OBVIOUS
<1>1. asked + 1 \in 1..Roots
  BY FilesAssumption DEF IInv, TypeOK, Ask
<1>2. entry[asked + 1].date \in Nat
  <2>1. entry[asked + 1] \in Entry
    BY <1>1 DEF IInv, TypeOK
  <2>2. entry[asked + 1].date \in Dates \cup {0}
    BY <2>1, EntryFacts
  <2> QED
    BY <2>2, DatesAreNat
<1>3. best' \in [root : 0..Roots, date : Nat]
  BY <1>1, <1>2 DEF IInv, TypeOK, Ask, Better
<1>4. pc' \in {"expand", "status"}
  BY DEF Ask
<1>5. TypeOK'
  BY <1>1, <1>3, <1>4, FilesAssumption DEF IInv, TypeOK, Ask, files, fragment, writer
<1> QED
  BY <1>4, <1>5, Searching DEF Ask, fragment, writer

LEMMA GetStatusStep == IInv /\ GetStatus => IInv'
<1> SUFFICES ASSUME IInv, GetStatus PROVE IInv'
  OBVIOUS
<1>1. resp = Fresh
  BY NoBody DEF GetStatus
<1>2. UNCHANGED <<files, req, asked, best, size, date, fragment, writer>>
  BY DEF GetStatus
<1>3. ASSUME NEW status \in {301, 400}, Stock(status) PROVE IInv'
  <2>1. /\ resp' = [resp EXCEPT !.status = status, !.type = "text", !.body = "text"]
        /\ pc' = "finished"
    BY <1>3 DEF Stock
  <2>2. resp' = [status |-> status, type |-> "text", length |-> None, range |-> <<>>, date |-> 0,
                 body |-> "text"]
    BY <1>1, <2>1 DEF Fresh
  <2>4. resp' \in Response /\ resp'.body = "text" /\ resp'.status = status
    BY <2>2 DEF Response
  <2>3. TypeOK'
    BY <1>2, <2>1, <2>4 DEF IInv, TypeOK, files, fragment, writer
  <2> QED
    BY <2>1, <2>3, <2>4 DEF IInv, Unanswered, FragmentSet, WritesFile, Accounted, Ordered, RangeInFile, Typed
<1>4. ASSUME pc' = "open", UNCHANGED resp PROVE IInv'
  <2>1. TypeOK'
    BY <1>2, <1>4 DEF IInv, TypeOK, files, fragment, writer
  <2> QED
    BY <1>2, <1>4, <2>1, Searching DEF GetStatus, writer
<1> QED
  BY <1>3, <1>4 DEF GetStatus

LEMMA CarryOnStep == IInv /\ CarryOn => IInv'
<1> SUFFICES ASSUME IInv, CarryOn PROVE IInv'
  OBVIOUS
<1>1. TypeOK'
  BY DEF IInv, TypeOK, CarryOn, files, fragment, writer
<1> QED
  BY <1>1, Searching DEF CarryOn, writer

LEMMA OpenStep == IInv /\ Open => IInv'
<1> SUFFICES ASSUME IInv, Open PROVE IInv'
  OBVIOUS
<1>1. Path.length \in Number /\ Path.length \in Lengths
  BY PathEntry, EntryFacts DEF IInv, Open
<1>2. 0 \in Number
  BY ModulusAssumption DEF Number
<1>3. TypeOK'
  BY <1>1, <1>2 DEF IInv, TypeOK, Open, writer
<1> QED
  BY <1>3, Searching DEF Open

LEMMA AskDateStep == IInv /\ AskDate => IInv'
<1> SUFFICES ASSUME IInv, AskDate PROVE IInv'
  OBVIOUS
<1>1. Path.date \in Dates \cup {0}
  BY PathEntry, EntryFacts DEF IInv
<1>2. TypeOK'
  BY <1>1 DEF IInv, TypeOK, AskDate, files, fragment, writer
<1> QED
  BY <1>2, Searching DEF AskDate, IInv, FragmentSet, fragment, writer

\* An answer without a body: its fields have types, and its range is one.
LEMMA EmptyAnswer ==
  ASSUME IInv, pc = "answer", NEW status \in Nat, NEW length \in Number \cup {None},
         NEW range \in Seq(Number), SendEmpty(status, length, range),
         status = 206 /\ size # 0 => range[1] <= range[2] /\ range[2] < size,
         UNCHANGED <<files, req, asked, best, size, date>>,
         first' \in Number, last' \in Number
  PROVE  IInv'
<1>1. PICK type \in MimeTypes(req.extension) :
        resp' = [status |-> status, type |-> type, length |-> length, range |-> range,
                 date |-> date, body |-> "empty"]
  BY DEF SendEmpty, Describe
<1>2. pc' = "finished" /\ UNCHANGED writer
  BY DEF SendEmpty
<1>3. date \in Nat
  BY FilesAssumption DEF IInv, TypeOK
<1>4. resp' \in Response
  BY <1>1, <1>3, TypesAreNames DEF Response
<1>5. TypeOK'
  BY <1>2, <1>4 DEF IInv, TypeOK, files, writer
<1>6. Unanswered' /\ FragmentSet' /\ WritesFile' /\ Accounted' /\ Ordered'
  BY <1>1, <1>2 DEF Unanswered, FragmentSet, WritesFile, Accounted, Ordered
<1>7. RangeInFile' /\ Typed'
  BY <1>1 DEF RangeInFile, Typed
<1> QED
  BY <1>5, <1>6, <1>7 DEF IInv

\* An answer with a body: the fragment is as long as the header says.
LEMMA FileAnswer ==
  ASSUME IInv, pc = "answer", NEW status \in Nat, NEW length \in Number,
         NEW range \in Seq(Number), SendFile(status, length, range),
         status = 206 /\ size # 0 => range[1] <= range[2] /\ range[2] < size,
         UNCHANGED <<files, req, asked, best, size, date>>,
         first' \in Number, last' \in Number,
         first' = IF range = <<>> THEN 0 ELSE range[1],
         size # 0 => first' <= last',
         Minus(last', first') = length
  PROVE  IInv'
<1>1. PICK type \in MimeTypes(req.extension) :
        resp' = [status |-> status, type |-> type, length |-> length, range |-> range,
                 date |-> date, body |-> "file"]
  BY DEF SendFile, Describe
<1>2. pc' = "writing" /\ pos' = first' /\ remain' = length /\ sent' = 0 /\ at' = at
  BY DEF SendFile
<1>3. date \in Nat
  BY FilesAssumption DEF IInv, TypeOK
<1>4. resp' \in Response
  BY <1>1, <1>3, TypesAreNames DEF Response
<1>5. 0 \in Number
  BY ModulusAssumption DEF Number
<1>6. TypeOK'
  BY <1>2, <1>4, <1>5 DEF IInv, TypeOK, files
<1>7. Unanswered' /\ FragmentSet' /\ WritesFile'
  BY <1>1, <1>2 DEF Unanswered, FragmentSet, WritesFile
<1>8. Accounted'
  <2>1. Start' = first'
    BY <1>1 DEF Start
  <2>2. Plus(first', 0) = first'
    BY ModulusAssumption DEF Plus, Number
  <2>3. resp'.length = length /\ length \in Int
    BY <1>1, ModulusAssumption DEF Number
  <2> QED
    BY <1>2, <2>1, <2>2, <2>3 DEF WritesFile, Accounted
<1>9. Ordered'
  BY <1>2, ModulusAssumption DEF Ordered, Minus, Number, files
<1>10. RangeInFile' /\ Typed'
  BY <1>1 DEF RangeInFile, Typed
<1> QED
  BY <1>6, <1>7, <1>8, <1>9, <1>10 DEF IInv

LEMMA NotSatisfiableStep == IInv /\ NotSatisfiable => IInv'
<1> SUFFICES ASSUME IInv, NotSatisfiable PROVE IInv'
  OBVIOUS
<1>1. first \in Number /\ last \in Number /\ UNCHANGED fragment /\ pc = "answer"
  <2>1. first = 0 /\ last = size /\ pc = "answer"
    BY DEF IInv, FragmentSet, NotSatisfiable
  <2>2. 0 \in Number
    BY ModulusAssumption DEF Number
  <2> QED
    BY <2>1, <2>2 DEF IInv, TypeOK, NotSatisfiable
<1>2. SendEmpty(416, None, <<>>) /\ <<>> \in Seq(Number) /\ 416 \in Nat
  BY DEF NotSatisfiable
<1>3. UNCHANGED <<files, req, asked, best, size, date>>
  BY DEF NotSatisfiable
<1>4. first' \in Number /\ last' \in Number
  BY <1>1 DEF fragment
<1>5. 416 = 206 /\ size # 0 => <<>>[1] <= <<>>[2] /\ <<>>[2] < size
  OBVIOUS
<1>6. None \in Number \cup {None}
  OBVIOUS
<1> QED
  BY <1>1, <1>2, <1>3, <1>4, <1>5, <1>6, EmptyAnswer

LEMMA PartialContentStep == IInv /\ PartialContent => IInv'
<1> SUFFICES ASSUME IInv, PartialContent PROVE IInv'
  OBVIOUS
<1>1. PICK k \in DOMAIN req.header :
        LET f == First(size, req.header[k])
            l == Last(size, req.header[k])
            length == Plus(Minus(l, f), 1)
        IN  /\ IsFront(k, size, req.header)
            /\ Fragment(f, l)
            /\ IF req.method = "head" THEN SendEmpty(206, length, <<f, l>>)
                                      ELSE SendFile(206, length, <<f, l>>)
  BY DEF PartialContent
<1> DEFINE piece == req.header[k]
           f == First(size, piece)
           l == Last(size, piece)
           length == Plus(Minus(l, f), 1)
<1>2. size \in Number /\ piece \in Piece
  <2>1. req \in Request
    BY FilesAssumption DEF IInv, TypeOK
  <2>2. req.header \in Seq(Piece)
    BY <2>1 DEF Request
  <2> QED
    BY <2>2 DEF IInv, TypeOK
<1>3. f \in Number /\ l \in Number
  BY <1>2, RangeType
<1>4. length \in Number /\ Plus(l, 1) \in Number
  <2>1. 1 \in Number
    BY ModulusAssumption DEF Number
  <2> QED
    BY <1>3, <2>1, ArithmeticType
<1>5. Present(size, piece)
  BY <1>1 DEF IsFront, Readable
<1>6. size # 0 => f <= l /\ l < size
  BY <1>2, <1>5, PresentInFile
<1>7. first' = f /\ last' = Plus(l, 1)
  BY <1>1 DEF Fragment
<1>8. /\ <<f, l>> \in Seq(Number) /\ <<f, l>> # <<>>
      /\ <<f, l>>[1] = f /\ <<f, l>>[2] = l
  BY <1>3
<1>9. pc = "answer" /\ UNCHANGED <<files, req, asked, best, size, date>>
  BY DEF PartialContent
<1>10. 206 = 206 /\ size # 0 => <<f, l>>[1] <= <<f, l>>[2] /\ <<f, l>>[2] < size
  BY <1>6, <1>8
<1>11. CASE req.method = "head"
  <2>1. SendEmpty(206, length, <<f, l>>)
    BY <1>1, <1>11
  <2>2. 206 \in Nat /\ first' \in Number /\ last' \in Number
    BY <1>3, <1>4, <1>7
  <2> HIDE DEF f, l, length
  <2> QED
    BY <1>4, <1>8, <1>9, <1>10, <2>1, <2>2, EmptyAnswer
<1>12. CASE req.method # "head"
  <2>1. SendFile(206, length, <<f, l>>)
    BY <1>1, <1>12
  <2>2. 206 \in Nat /\ first' \in Number /\ last' \in Number
    BY <1>3, <1>4, <1>7
  <2>3. Minus(last', first') = length
    BY <1>3, <1>7, FragmentLength
  <2>4. first' = IF <<f, l>> = <<>> THEN 0 ELSE <<f, l>>[1]
    BY <1>7, <1>8
  <2>5. size # 0 => first' <= last'
    BY <1>2, <1>3, <1>6, <1>7, ModulusAssumption DEF Plus, Number
  <2> HIDE DEF f, l, length
  <2> QED
    BY <1>4, <1>8, <1>9, <1>10, <2>1, <2>2, <2>3, <2>4, <2>5, FileAnswer
<1> QED
  BY <1>11, <1>12

LEMMA WholeFileStep == IInv /\ WholeFile => IInv'
<1> SUFFICES ASSUME IInv, WholeFile PROVE IInv'
  OBVIOUS
<1>1. pc = "answer" /\ UNCHANGED <<files, req, asked, best, size, date>> /\ UNCHANGED fragment
  BY DEF WholeFile
<1>2. size \in Number /\ first = 0 /\ last = size /\ 0 \in Number
  BY <1>1, ModulusAssumption DEF IInv, TypeOK, FragmentSet, Number
<1>3. first' = 0 /\ last' = size /\ <<>> \in Seq(Number) /\ first' \in Number /\ last' \in Number
  BY <1>1, <1>2 DEF fragment
<1>4. ASSUME NEW status \in Nat, status # 206, SendEmpty(status, size, <<>>) PROVE IInv'
  <2>1. status = 206 /\ size # 0 => <<>>[1] <= <<>>[2] /\ <<>>[2] < size
    BY <1>4
  <2>2. size \in Number \cup {None}
    BY <1>2
  <2> QED
    BY <1>1, <1>3, <1>4, <2>1, <2>2, EmptyAnswer
<1>5. ASSUME SendFile(200, size, <<>>) PROVE IInv'
  <2> DEFINE none == <<>>
  <2>1. SendFile(200, size, none) /\ none \in Seq(Number)
    BY <1>3, <1>5
  <2>2. 200 \in Nat /\ (200 = 206 /\ size # 0 => none[1] <= none[2] /\ none[2] < size)
    OBVIOUS
  <2>3. first' = IF none = <<>> THEN 0 ELSE none[1]
    BY <1>3
  <2>4. Minus(last', first') = size
    BY <1>2, <1>3 DEF Minus, Number
  <2>5. size # 0 => first' <= last'
    BY <1>2, <1>3 DEF Number
  <2>6. first' \in Number /\ last' \in Number /\ size \in Number
    BY <1>2, <1>3
  <2> HIDE DEF none
  <2> QED
    BY <1>1, <2>1, <2>2, <2>3, <2>4, <2>5, <2>6, FileAnswer
<1>6. 200 \in Nat /\ 200 # 206 /\ 304 \in Nat /\ 304 # 206
  OBVIOUS
<1> QED
  BY <1>4, <1>5, <1>6 DEF WholeFile

LEMMA NothingToWriteStep == IInv /\ NothingToWrite => IInv'
<1> SUFFICES ASSUME IInv, NothingToWrite PROVE IInv'
  OBVIOUS
<1>1. TypeOK'
  BY DEF IInv, TypeOK, NothingToWrite, files, fragment, writer
<1> QED
  BY <1>1 DEF IInv, NothingToWrite, Unanswered, FragmentSet, WritesFile, Accounted, Ordered, Start, RangeInFile, Typed, files, fragment, writer

LEMMA CutStep == IInv /\ Cut => IInv'
<1> SUFFICES ASSUME IInv, Cut PROVE IInv'
  OBVIOUS
<1>1. TypeOK'
  BY DEF IInv, TypeOK, Cut, files, fragment, writer
<1> QED
  BY <1>1 DEF IInv, Cut, Unanswered, FragmentSet, WritesFile, Accounted, Ordered, Start, RangeInFile, Typed, files, fragment, writer

\* A piece of the body: what is read is in the file and was still to be sent.
LEMMA GetStep == IInv /\ Get => IInv'
<1> SUFFICES ASSUME IInv, Get PROVE IInv'
  OBVIOUS
<1>1. /\ pc = "writing" /\ remain > 0 /\ ReadFrom < held
      /\ at' = ReadFrom + Amount /\ pos' = Plus(pos, Amount)
      /\ remain' = Minus(remain, Amount) /\ sent' = sent + Amount
      /\ pc' = IF More THEN "writing" ELSE "finished"
      /\ UNCHANGED <<files, req, asked, best, size, date, resp, fragment>>
  BY DEF Get
<1>2. /\ Modulus \in Nat /\ pos \in 0..(Modulus - 1) /\ remain \in 0..(Modulus - 1)
      /\ sent \in 0..(Modulus - 1) /\ held \in 0..(Modulus - 1) /\ at \in 0..(Modulus - 1)
  <2>1. held \in Number
    BY FilesAssumption, ModulusAssumption DEF IInv, TypeOK, Number
  <2> QED
    BY <2>1, ModulusAssumption DEF IInv, TypeOK, Number
<1>3. ReadFrom \in 0..(Modulus - 1)
  BY <1>2 DEF ReadFrom
<1>4. Amount \in Nat /\ Amount <= remain /\ Amount <= held - ReadFrom /\ Amount > 0
  BY <1>1, <1>2, <1>3, FilesAssumption DEF Amount, Least
<1>5. remain' = remain - Amount /\ remain' \in 0..(Modulus - 1) /\ at' \in 0..(Modulus - 1)
  BY <1>1, <1>2, <1>3, <1>4 DEF Minus
<1>6. pos' \in 0..(Modulus - 1)
  BY <1>1, <1>2, <1>4 DEF Plus
<1>7. pc' \in {"writing", "finished"} /\ UNCHANGED <<files, req, resp, fragment, size>>
  BY <1>1
<1>8. resp.body = "file"
  BY <1>1 DEF IInv, WritesFile
<1>9. resp.length \in 0..(Modulus - 1) /\ resp.length = sent + remain /\ pos = Plus(Start, sent)
  <2>1. resp.length = sent + remain /\ pos = Plus(Start, sent)
    BY <1>8 DEF IInv, Accounted
  <2>2. resp.length \in Number \cup {None}
    BY DEF IInv, TypeOK, Response
  <2> QED
    BY <1>2, <2>1, <2>2 DEF Number, None
<1>10. Start \in 0..(Modulus - 1)
  <2>1. resp.range \in Seq(Number)
    BY DEF IInv, TypeOK, Response
  <2>2. CASE resp.range = <<>>
    BY <1>2, <2>2 DEF Start
  <2>3. CASE resp.range # <<>>
    <3>1. resp.range[1] \in Number
      BY <2>1, <2>3
    <3> QED
      BY <2>3, <3>1 DEF Start, Number
  <2> QED
    BY <2>2, <2>3
<1>11. sent' \in 0..(Modulus - 1) /\ resp.length = sent' + remain'
  BY <1>1, <1>2, <1>4, <1>5, <1>9
<1>12. pos' = Plus(Start, sent')
  BY <1>1, <1>2, <1>4, <1>9, <1>10, <1>11 DEF Plus
<1>13. TypeOK'
  BY <1>1, <1>5, <1>6, <1>11 DEF IInv, TypeOK, files, fragment, Number
<1>14. Ordered'
  <2>1. ASSUME size # 0 PROVE pos' <= last' /\ remain' = last' - pos'
    <3>1. pos <= last /\ remain = last - pos /\ last' = last
      BY <1>7, <1>8, <2>1 DEF IInv, Ordered, fragment
    <3>2. last \in 0..(Modulus - 1)
      BY <1>2, <3>1 DEF IInv, TypeOK, Number, None
    <3>3. pos' = pos + Amount
      BY <1>1, <1>2, <1>4, <3>1, <3>2 DEF Plus
    <3> QED
      BY <1>2, <1>4, <1>5, <3>1, <3>2, <3>3
  <2> QED
    BY <1>7, <2>1 DEF Ordered
<1>15. ASSUME pc' = "finished", build = "generic" \/ size # 0 PROVE remain' = 0
  <2>1. ~More
    BY <1>1, <1>15
  <2>2. CASE build = "generic"
    BY <1>5, <2>1, <2>2 DEF More
  <2>3. CASE build # "generic"
    <3>1. pos' <= last' /\ remain' = last' - pos' /\ last' = last
      BY <1>7, <1>8, <1>14, <1>15, <2>3 DEF Ordered, fragment
    <3>2. last \in 0..(Modulus - 1)
      BY <1>2, <1>6, <3>1 DEF IInv, TypeOK, Number, None
    <3>3. ~(pos' < last)
      BY <2>1, <2>3 DEF More
    <3> QED
      <4>1. pos' \in Int /\ last \in Int
        BY <1>2, <1>6, <3>2
      <4>2. pos' = last
        BY <3>1, <3>3, <4>1
      <4> QED
        BY <3>1, <4>1, <4>2
  <2> QED
    BY <2>2, <2>3
<1>16. ASSUME build = "generic" PROVE at' = pos'
  BY <1>1, <1>2, <1>4, <1>16 DEF ReadFrom, Plus
<1>17. Accounted'
  BY <1>1, <1>7, <1>11, <1>12, <1>15, <1>16 DEF WritesFile, Accounted, Start, files
<1> QED
  BY <1>7, <1>8, <1>13, <1>14, <1>17 DEF IInv, Unanswered, FragmentSet, WritesFile, RangeInFile, Typed

LEMMA ChangeEntryStep ==
  ASSUME IInv, NEW r \in 1..Roots, ChangeEntry(r)
  PROVE  IInv'
<1>1. entry' \in [1..Roots -> Entry]
  BY DEF ChangeEntry, IInv, TypeOK
<1>2. changes' \in 0..MaxChanges
  BY FilesAssumption DEF ChangeEntry, IInv, TypeOK
<1>3. TypeOK'
  BY <1>1, <1>2 DEF ChangeEntry, IInv, TypeOK, fragment, writer
<1> QED
  BY <1>3, SameAnswer DEF ChangeEntry, IInv, FragmentSet, fragment, writer

LEMMA ChangeHeldStep == IInv /\ ChangeHeld => IInv'
<1> SUFFICES ASSUME IInv, ChangeHeld PROVE IInv'
  OBVIOUS
<1>1. changes' \in 0..MaxChanges
  BY FilesAssumption DEF ChangeHeld, IInv, TypeOK
<1>2. TypeOK'
  BY <1>1 DEF ChangeHeld, IInv, TypeOK, fragment, writer
<1> QED
  BY <1>2, SameAnswer DEF ChangeHeld, IInv, FragmentSet, fragment, writer

LEMMA StutterStep == IInv /\ UNCHANGED vars => IInv'
<1> SUFFICES ASSUME IInv, UNCHANGED vars PROVE IInv'
  OBVIOUS
<1>1. TypeOK'
  BY DEF IInv, TypeOK, vars, files, fragment, writer
<1> QED
  BY <1>1, SameAnswer DEF vars, IInv, FragmentSet, files, fragment, writer

LEMMA StepIInv == IInv /\ [Next]_vars => IInv'
BY ThrowStep, AskStep, GetStatusStep, CarryOnStep, OpenStep, AskDateStep, NotSatisfiableStep,
   PartialContentStep, WholeFileStep, NothingToWriteStep, GetStep, CutStep, ChangeEntryStep,
   ChangeHeldStep, StutterStep DEF Next, Handle

--------------------------------------------------------------------------------
(* Theorems.                                                               *)

\* IInv holds of every request, whatever becomes of the files.
THEOREM Invariant == Spec => []IInv
BY InitIInv, StepIInv, PTL DEF Spec

\* The variables keep their types; the writer never works with a fragment that
\* was not set.
THEOREM TypeCorrect == Spec => []TypeOK
<1>1. IInv => TypeOK
  BY DEF IInv
<1> QED
  BY <1>1, Invariant, PTL

\* What is written of a file is what the header says of it, for every file, range
\* and change, where the numbers wrap too.
THEOREM PromiseKept == Spec => []BodyAsPromised
<1>1. IInv => BodyAsPromised
  <2> SUFFICES ASSUME IInv, resp.body = "file"
               PROVE  /\ sent <= resp.length
                      /\ pc = "finished" /\ (build = "generic" \/ size # 0) =>
                           sent = resp.length
                      /\ build = "generic" /\ sent > 0 => at = Plus(Start, sent)
    BY DEF BodyAsPromised, Start
  <2>1. sent \in Int /\ remain \in Int /\ remain >= 0
    BY ModulusAssumption DEF IInv, TypeOK, Number
  <2> QED
    BY <2>1 DEF IInv, WritesFile, Accounted
<1> QED
  BY <1>1, Invariant, PTL

\* No range that is answered goes beyond a file that has a byte, for every size
\* and every header.
THEOREM RangesInFile == Spec => []RangeInFile
<1>1. IInv => RangeInFile
  BY DEF IInv
<1> QED
  BY <1>1, Invariant, PTL

\* For every table, every extension and whatever lies behind its text in memory,
\* the type of an answer is that of the extension, in letters of any case.
THEOREM TypesByExtension == Spec => []TypeByExtension
<1>1. IInv => TypeByExtension
  <2> SUFFICES ASSUME IInv, resp.body \in {"empty", "file"}, Alphanumeric(Four(req.extension))
               PROVE  LET ext == Four(req.extension)
                      IN  /\ resp.type \in {TypeOf(ext), OctetStream}
                          /\ Len(ext) >= 3 => resp.type = TypeOf(ext)
    BY DEF TypeByExtension, Four, Alphanumeric
  <2>1. req.extension \in Seq(Byte)
    <3>1. req \in Request
      BY FilesAssumption DEF IInv, TypeOK
    <3> QED
      BY <3>1 DEF Request
  <2>2. resp.type \in MimeTypes(req.extension)
    BY DEF IInv, Typed
  <2>3. Len(Four(req.extension)) >= 3 => Len(req.extension) >= 3
    BY <2>1, FourOf
  <2> QED
    BY <2>1, <2>2, <2>3, TypeFound
<1> QED
  BY <1>1, Invariant, PTL

--------------------------------------------------------------------------------
(* What the answer says of the roots and of the ranges.                    *)

\* A step that neither asks a root nor changes a file leaves what was asked.
Looked == <<entry, changes, asked, best>>

\* Of the roots asked so far, as they are now if no file was changed, the best
\* candidate is the oldest copy.
OldestSoFar ==
  changes = 0 =>
    LET copies == {r \in 1..asked : entry[r].kind # "nothing"}
    IN  IF copies = {} THEN best.root = 0
        ELSE /\ best.root \in copies /\ best.date = entry[best.root].date
             /\ \A r \in copies : best.date <= entry[r].date

LEMMA OldestUnchanged ==
  ASSUME OldestSoFar, UNCHANGED Looked
  PROVE  OldestSoFar'
BY DEF OldestSoFar, Looked

LEMMA AskOldest == IInv /\ OldestSoFar /\ Ask => OldestSoFar'
<1> SUFFICES ASSUME IInv, OldestSoFar, Ask, changes = 0 PROVE OldestSoFar'
  BY DEF OldestSoFar, Ask, files
<1> DEFINE r == asked + 1
           copies == {q \in 1..asked : entry[q].kind # "nothing"}
<1>1. asked \in Nat /\ asked' = r /\ entry' = entry /\ r \in 1..Roots
  BY FilesAssumption DEF IInv, TypeOK, Ask, files
<1>2. 1..r = 1..asked \cup {r} /\ r \notin 1..asked /\ 0 \notin 1..asked /\ r # 0
  BY <1>1
<1>3. \A q \in 1..r : entry[q].date \in Nat
  <2> SUFFICES ASSUME NEW q \in 1..r PROVE entry[q].date \in Nat
    OBVIOUS
  <2>1. entry[q] \in Entry
    BY <1>1, FilesAssumption DEF IInv, TypeOK
  <2> QED
    BY <2>1, EntryFacts, DatesAreNat
<1>4. IF copies = {} THEN best.root = 0
      ELSE /\ best.root \in copies /\ best.date = entry[best.root].date
           /\ \A q \in copies : best.date <= entry[q].date
  BY DEF OldestSoFar
<1>5. best' = IF entry[r].kind # "nothing" /\ (best.root = 0 \/ entry[r].date < best.date)
                THEN [root |-> r, date |-> entry[r].date] ELSE best
  BY DEF Ask, Better
<1>6. {q \in 1..asked' : entry'[q].kind # "nothing"} =
        IF entry[r].kind # "nothing" THEN copies \cup {r} ELSE copies
  BY <1>1, <1>2
<1>7. \A q \in copies : q \in 1..r /\ q # 0
  BY <1>2
<1> DEFINE now == IF entry[r].kind # "nothing" THEN copies \cup {r} ELSE copies
<1>8. IF now = {} THEN best'.root = 0
      ELSE /\ best'.root \in now /\ best'.date = entry[best'.root].date
           /\ \A q \in now : best'.date <= entry[q].date
  <2> HIDE DEF copies
  <2>1. CASE entry[r].kind = "nothing"
    BY <1>4, <1>5, <2>1
  <2>2. CASE entry[r].kind # "nothing" /\ copies = {}
    <3>1. best' = [root |-> r, date |-> entry[r].date] /\ now = {r}
      BY <1>4, <1>5, <2>2
    <3> QED
      BY <1>2, <1>3, <3>1
  <2>3. CASE entry[r].kind # "nothing" /\ copies # {}
    <3>1. best.root # 0 /\ best.date \in Nat /\ entry[r].date \in Nat /\ now = copies \cup {r}
      BY <1>2, <1>3, <1>4, <1>7, <2>3
    <3>2. CASE entry[r].date < best.date
      <4>1. best' = [root |-> r, date |-> entry[r].date]
        BY <1>5, <2>3, <3>2
      <4>2. \A q \in copies : entry[r].date <= entry[q].date
        BY <1>3, <1>4, <1>7, <2>3, <3>1, <3>2
      <4> QED
        BY <3>1, <4>1, <4>2
    <3>3. CASE ~(entry[r].date < best.date)
      <4>1. best' = best
        BY <1>5, <3>1, <3>3
      <4>2. best.date <= entry[r].date
        BY <3>1, <3>3
      <4> QED
        BY <1>4, <2>3, <3>1, <4>1, <4>2
    <3> QED
      BY <3>2, <3>3
  <2> QED
    BY <2>1, <2>2, <2>3
<1> QED
  BY <1>1, <1>6, <1>8 DEF OldestSoFar

LEMMA StepOldest == IInv /\ OldestSoFar /\ [Next]_vars => OldestSoFar'
<1> SUFFICES ASSUME IInv, OldestSoFar, [Next]_vars PROVE OldestSoFar'
  OBVIOUS
<1>1. CASE Ask
  BY <1>1, AskOldest
<1>2. CASE ChangeHeld \/ \E r \in 1..Roots : ChangeEntry(r)
  <2>1. changes' # 0
    BY <1>2 DEF ChangeHeld, ChangeEntry, IInv, TypeOK
  <2> QED
    BY <2>1 DEF OldestSoFar
<1>3. CASE Throw \/ GetStatus \/ CarryOn \/ Open \/ AskDate
  BY <1>3, OldestUnchanged DEF Looked, files, Throw, GetStatus, CarryOn, Open, AskDate
<1>4. CASE NotSatisfiable \/ PartialContent \/ WholeFile
  BY <1>4, OldestUnchanged DEF Looked, files, NotSatisfiable, PartialContent, WholeFile
<1>5. CASE NothingToWrite \/ Get \/ Cut
  BY <1>5, OldestUnchanged DEF Looked, files, NothingToWrite, Get, Cut
<1>6. CASE UNCHANGED vars
  BY <1>6, OldestUnchanged DEF Looked, files, vars
<1> QED
  BY <1>1, <1>2, <1>3, <1>4, <1>5, <1>6 DEF Next, Handle

\* While the files stay as they are, expand returns the copy with the lowest date,
\* however many roots there are and whatever lies in them.
THEOREM OldestFound == Spec => []OldestCopy
<1>1. Init => OldestSoFar
  BY FilesAssumption DEF Init, OldestSoFar
<1>2. OldestSoFar => OldestCopy
  BY DEF OldestSoFar, OldestCopy
<1> QED
  BY <1>1, <1>2, StepOldest, Invariant, PTL DEF Spec

\* What RangesAsAsked says of an answer to a header, about a file of n bytes.
AsAsked(n, header, answer) ==
  LET named == [k \in DOMAIN header |-> Named(n, header[k])]
      naming == {k \in DOMAIN header : named[k] # {}}
  IN  (\A k \in DOMAIN header : ~Wraps(n, header[k])) =>
        /\ answer.status = 416 => naming = {}
        /\ answer.status = 206 =>
             \E k \in naming : /\ \A j \in naming : k <= j
                               /\ answer.range[1]..answer.range[2] = named[k]

LEMMA RangesAre ==
  /\ RangesAsAsked <=> AsAsked(size, req.header, resp)
  /\ RangesAsAsked' <=> AsAsked(size', req'.header, resp')
BY DEF RangesAsAsked, AsAsked

LEMMA OtherAnswer ==
  ASSUME NEW n, NEW header, NEW answer, answer.status \notin {206, 416}
  PROVE  AsAsked(n, header, answer)
BY DEF AsAsked

LEMMA NoneNamed ==
  ASSUME NEW n, NEW header, NEW answer, answer.status = 416,
         \A k \in DOMAIN header : Named(n, header[k]) = {}
  PROVE  AsAsked(n, header, answer)
<1> DEFINE named == [k \in DOMAIN header |-> Named(n, header[k])]
<1>1. \A k \in DOMAIN header : named[k] = {}
  OBVIOUS
<1>2. answer.status # 206
  OBVIOUS
<1> HIDE DEF named
<1>3. {k \in DOMAIN header : named[k] # {}} = {}
  <2>1. ASSUME NEW k \in {k \in DOMAIN header : named[k] # {}} PROVE FALSE
    BY <1>1, <2>1
  <2> QED
    BY <2>1
<1> QED
  BY <1>2, <1>3 DEF AsAsked, named

LEMMA FirstNamed ==
  ASSUME NEW n, NEW header, NEW answer, answer.status = 206, NEW k \in DOMAIN header,
         Named(n, header[k]) # {},
         \A j \in DOMAIN header : Named(n, header[j]) # {} => k <= j,
         answer.range[1]..answer.range[2] = Named(n, header[k])
  PROVE  AsAsked(n, header, answer)
BY DEF AsAsked

\* An answer to a request for a range, when it is given.
LEMMA RangesWhenAnswered ==
  ASSUME IInv, NotSatisfiable \/ PartialContent
  PROVE  RangesAsAsked'
<1> DEFINE header == req.header
<1> SUFFICES ASSUME \A k \in DOMAIN header : ~Wraps(size, header[k])
             PROVE  AsAsked(size, header, resp')
  <2>1. req' = req /\ size' = size
    BY DEF NotSatisfiable, PartialContent
  <2>2. ~(\A k \in DOMAIN header : ~Wraps(size, header[k])) => AsAsked(size, header, resp')
    BY DEF AsAsked
  <2> QED
    BY <2>1, <2>2, RangesAre
<1>1. size \in Number /\ \A k \in DOMAIN header : header[k] \in Piece
  <2>1. req \in Request
    BY FilesAssumption DEF IInv, TypeOK
  <2>2. header \in Seq(Piece)
    BY <2>1 DEF Request
  <2> QED
    BY <2>2 DEF IInv, TypeOK
<1>2. \A k \in DOMAIN header : k \in Readable(size, header) <=> Named(size, header[k]) # {}
  BY <1>1, NamedRange DEF Readable
<1>3. CASE NotSatisfiable
  <2>1. resp'.status = 416 /\ Readable(size, header) = {}
    BY <1>3 DEF NotSatisfiable, SendEmpty, Describe
  <2> QED
    BY <1>2, <2>1, NoneNamed
<1>4. CASE PartialContent
  <2>1. PICK k \in DOMAIN header :
          /\ IsFront(k, size, header)
          /\ resp'.status = 206
          /\ resp'.range = <<First(size, header[k]), Last(size, header[k])>>
    BY <1>4 DEF PartialContent, SendEmpty, SendFile, Describe
  <2>2. /\ k \in Readable(size, header)
        /\ \A j \in Readable(size, header) : k <= j
    BY <2>1 DEF IsFront
  <2>3. First(size, header[k])..Last(size, header[k]) = Named(size, header[k])
    BY <1>1, <2>2, NamedRange DEF Readable
  <2>4. /\ Named(size, header[k]) # {}
        /\ \A j \in DOMAIN header : Named(size, header[j]) # {} => k <= j
    BY <1>2, <2>2
  <2>5. resp'.range[1]..resp'.range[2] = Named(size, header[k])
    BY <2>1, <2>3
  <2> QED
    BY <2>1, <2>4, <2>5, FirstNamed
<1> QED
  BY <1>3, <1>4

LEMMA StepRanges == IInv /\ RangesAsAsked /\ [Next]_vars => RangesAsAsked'
<1> SUFFICES ASSUME IInv, RangesAsAsked, [Next]_vars PROVE RangesAsAsked'
  OBVIOUS
<1>1. ASSUME resp'.status \notin {206, 416} PROVE RangesAsAsked'
  BY <1>1, OtherAnswer, RangesAre
<1>2. ASSUME UNCHANGED <<req, size, resp>> PROVE RangesAsAsked'
  BY <1>2, RangesAre
<1>3. CASE Throw \/ Ask \/ CarryOn \/ AskDate \/ NothingToWrite \/ Get \/ Cut
  BY <1>2, <1>3 DEF Throw, Ask, CarryOn, AskDate, NothingToWrite, Get, Cut
<1>4. CASE GetStatus
  <2>1. Fresh.status = 200 /\ resp = Fresh
    BY <1>4, NoBody DEF GetStatus, Fresh
  <2>2. ASSUME NEW status \in {301, 400}, Stock(status) PROVE resp'.status = status
    BY <2>1, <2>2 DEF Stock, Fresh
  <2>3. Stock(301) \/ Stock(400) \/ UNCHANGED resp
    BY <1>4 DEF GetStatus
  <2> QED
    BY <1>1, <2>1, <2>2, <2>3
<1>5. CASE Open
  <2>1. resp = Fresh /\ Fresh.status = 200
    BY <1>5, NoBody DEF Open, Fresh
  <2> QED
    BY <1>1, <1>5, <2>1 DEF Open
<1>6. CASE NotSatisfiable \/ PartialContent
  BY <1>6, RangesWhenAnswered
<1>7. CASE WholeFile
  <2>1. resp'.status \in {200, 304}
    BY <1>7 DEF WholeFile, SendEmpty, SendFile, Describe
  <2> QED
    BY <1>1, <2>1
<1>8. CASE ChangeHeld \/ (\E r \in 1..Roots : ChangeEntry(r)) \/ UNCHANGED vars
  BY <1>2, <1>8 DEF ChangeHeld, ChangeEntry, vars
<1> QED
  BY <1>3, <1>4, <1>5, <1>6, <1>7, <1>8 DEF Next, Handle

\* For every file, every header and every width of the numbers: where none wraps,
\* the bytes that are sent are those the first piece names that names any.
THEOREM RangesFound == Spec => []RangesAsAsked
<1>1. Init => RangesAsAsked
  <2>1. Fresh.status = 200
    BY DEF Fresh
  <2> QED
    BY <2>1, OtherAnswer, RangesAre DEF Init
<1> QED
  BY <1>1, StepRanges, Invariant, PTL DEF Spec
================================================================================
