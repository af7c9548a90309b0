------------------------------- MODULE StaticFiles -------------------------------
(***************************************************************************)
(* One request to the filter static_files: shared_roots::expand,           *)
(* static_files_base::get_file (libs/static_files) and, for what it sends, *)
(* the writer of the patched file body, while other programs change the    *)
(* files.  The writer is one of two: that of basic_file_body.hh, or, where *)
(* the file is a file_win32, that of file_body_win32.hh.                   *)
(*                                                                         *)
(* One name is looked up in each root.  Every call that asks the file      *)
(* system is a step, and the files may change between any two: what lies   *)
(* under the name is written to, replaced or taken away, and the file that *)
(* is open becomes longer or shorter, with its name or without.  A date is *)
(* a number; 0 is time_point::min().                                       *)
(*                                                                         *)
(* Definitions called Faulty... are the ones below them with one likely    *)
(* mistake; no action uses them.  They show what each property excludes.   *)
(***************************************************************************)
EXTENDS ByteRange, MimeType

CONSTANTS
  Roots,        \* how many roots there are
  Buffer,       \* sizeof(buf_)
  Requests,     \* the requests that are made
  Lengths,      \* lengths of files
  Dates,        \* dates of files and directories
  MaxChanges    \* bound: changes of files by other programs

None == -1   \* no such header, no such field, no value

Builds == {"generic", "win32"}

\* since is the date of If-Modified-Since, 0 if it cannot be read; extension is that
\* of the file it is for.
Request == [target : {"mount", "below"}, method : {"get", "head", "other"},
            ranged : BOOLEAN, header : Seq(Piece), since : Nat \cup {None},
            extension : Seq(Byte)]

ASSUME FilesAssumption ==
  /\ Roots \in Nat \ {0} /\ Buffer \in Nat \ {0} /\ MaxChanges \in Nat
  /\ Requests \subseteq Request /\ Lengths \subseteq Number /\ Dates \subseteq Nat \ {0}

Entry == [kind : {"nothing"}, length : {0}, date : {0}]
           \cup [kind : {"directory"}, length : {0}, date : Dates]
           \cup [kind : {"file"}, length : Lengths, date : Dates]

VARIABLES
  build,     \* which file the program is built with
  entry,     \* what lies under the name in each root
  held,      \* the length of the open file
  changes,   \* changes of files so far
  req,       \* the request
  pc,        \* where its handling is
  asked,     \* expand: the roots that were asked
  best,      \* expand: the root and the date of best_candidate; root 0 if !found
  size,      \* body.size_
  date,      \* sys_date
  resp,      \* the response: status, fields, and what body it is sent with
  first,     \* body.first_
  last,      \* body.last_
  at,        \* the position of the open file, where a read begins
  pos,       \* the writer's pos_
  remain,    \* the writer's remain_; with a file_win32, last_ - pos_
  sent       \* bytes of the body that were written

files == <<build, entry, held, changes>>
fragment == <<first, last>>
writer == <<at, pos, remain, sent>>
vars == <<files, req, pc, asked, best, size, date, resp, fragment, writer>>

\* The fields: Content-Type, "" if it is not set and "text" for that of the stock
\* responses, Content-Length as set with content_length(), Content-Range with its
\* first and last byte, and Last-Modified.
Response == [status : Nat, type : TypeNames \cup {"", "text"}, length : Number \cup {None}, range : Seq(Number),
             date : Nat, body : {"none", "empty", "text", "file"}]

Fresh == [status |-> 200, type |-> "", length |-> None, range |-> <<>>, date |-> 0, body |-> "none"]

TypeOK ==
  /\ build \in Builds /\ entry \in [1..Roots -> Entry] /\ held \in Lengths \cup {0} /\ changes \in 0..MaxChanges
  /\ req \in Requests
  /\ pc \in {"expand", "status", "open", "date", "answer", "writing",
             "threw", "carried_on", "finished", "cut"}
  /\ asked \in 0..Roots /\ best \in [root : 0..Roots, date : Nat]
  /\ size \in Number /\ date \in Dates \cup {0} /\ resp \in Response
  /\ first \in Number \cup {None} /\ last \in Number \cup {None}
  /\ at \in Number /\ pos \in Number /\ remain \in Number /\ sent \in Number

Init ==
  /\ build \in Builds /\ entry \in [1..Roots -> Entry] /\ held = 0 /\ changes = 0
  /\ req \in Requests
  /\ pc = "expand" /\ asked = 0 /\ best = [root |-> 0, date |-> 0]
  /\ size = 0 /\ date = 0 /\ resp = Fresh
  /\ first = None /\ last = None
  /\ at = 0 /\ pos = 0 /\ remain = 0 /\ sent = 0

--------------------------------------------------------------------------------
(* Other programs.                                                         *)

\* A file is written to, is replaced, comes or goes.  (After "date" no name is looked
\* up any more, and such a change shows nowhere.)
ChangeEntry(r) ==
  /\ pc \in {"expand", "status", "open", "date"}
  /\ changes < MaxChanges
  /\ changes' = changes + 1
  /\ entry[r].kind # "directory"
  /\ \E e \in Entry : e.kind # "directory" /\ entry' = [entry EXCEPT ![r] = e]
  /\ UNCHANGED <<build, held, req, pc, asked, best, size, date, resp, fragment, writer>>

\* The open file is written to or cut.  (Its length is not asked for before the
\* writer reads it.)
ChangeHeld ==
  /\ pc = "writing"
  /\ changes < MaxChanges
  /\ changes' = changes + 1
  /\ held' \in Lengths
  /\ UNCHANGED <<build, entry, req, pc, asked, best, size, date, resp, fragment, writer>>

--------------------------------------------------------------------------------
(* Which file it is.                                                       *)

\* resource_from: the path of the mount itself ends where substr() begins.
Throw ==
  /\ pc = "expand" /\ asked = 0 /\ req.target = "mount"
  /\ pc' = "threw"
  /\ UNCHANGED <<files, req, asked, best, size, date, resp, fragment, writer>>

\* Faulty: the candidate is kept and its date is not.
FaultyBetter(r) == [root |-> r, date |-> best.date]

Better(r) == [root |-> r, date |-> entry[r].date]

\* A round of expand.  It keeps the candidate with the lowest date.
Ask ==
  /\ pc = "expand" /\ asked < Roots /\ req.target = "below"
  /\ asked' = asked + 1
  /\ LET r == asked + 1
     IN  best' = IF entry[r].kind # "nothing" /\ (best.root = 0 \/ entry[r].date < best.date)
                   THEN Better(r) ELSE best
  /\ pc' = IF asked' = Roots THEN "status" ELSE "expand"
  /\ UNCHANGED <<files, req, size, date, resp, fragment, writer>>

\* The path that expand returns, or that of the only root.
Path == entry[IF best.root = 0 THEN 1 ELSE best.root]

\* stock_response
Stock(status) ==
  /\ resp' = [resp EXCEPT !.status = status, !.type = "text", !.body = "text"]
  /\ pc' = "finished"

GetStatus ==
  /\ pc = "status"
  /\ CASE Path.kind = "directory" -> Stock(301)
       [] Path.kind # "directory" /\ req.method = "other" -> Stock(400)
       [] OTHER -> pc' = "open" /\ UNCHANGED resp
  /\ UNCHANGED <<files, req, asked, best, size, date, fragment, writer>>

\* The file is not there, or not to be read.
CarryOn ==
  /\ pc = "open"
  /\ pc' = "carried_on"
  /\ UNCHANGED <<files, req, asked, best, size, date, resp, fragment, writer>>

\* Faulty: the fragment is left as it is.
FaultyOpen ==
  /\ pc = "open" /\ Path.kind = "file"
  /\ held' = Path.length /\ size' = Path.length
  /\ at' = 0
  /\ pc' = "date"
  /\ UNCHANGED <<build, entry, changes, req, asked, best, date, resp, fragment, pos, remain, sent>>

Open ==
  /\ pc = "open" /\ Path.kind = "file"
  /\ held' = Path.length /\ size' = Path.length
  /\ first' = 0 /\ last' = Path.length
  /\ at' = 0
  /\ pc' = "date"
  /\ UNCHANGED <<build, entry, changes, req, asked, best, date, resp, pos, remain, sent>>

\* last_write_time asks for the name again, which may be another file's by now.
AskDate ==
  /\ pc = "date"
  /\ date' = Path.date
  /\ pc' = "answer"
  /\ UNCHANGED <<files, req, asked, best, size, resp, fragment, writer>>

--------------------------------------------------------------------------------
(* The answer.                                                             *)

\* The code's answer to If-Modified-Since.
ModifiedSince == date # 0 /\ req.since # None /\ date > req.since

\* What the fields say of the file, or of the range of it.
Describe(status, length, range, body) ==
  \E type \in MimeTypes(req.extension) :
    resp' = [status |-> status, type |-> type, length |-> length, range |-> range,
             date |-> date, body |-> body]

\* send<empty_body>
SendEmpty(status, length, range) ==
  /\ Describe(status, length, range, "empty")
  /\ pc' = "finished"
  /\ UNCHANGED writer

\* send<file_body>, and the constructor of its writer.
SendFile(status, length, range) ==
  /\ Describe(status, length, range, "file")
  /\ pc' = "writing"
  /\ pos' = first' /\ remain' = Minus(last', first') /\ sent' = 0
  /\ UNCHANGED at

NotSatisfiable ==
  /\ pc = "answer" /\ req.ranged /\ Readable(size, req.header) = {}
  /\ SendEmpty(416, None, <<>>)
  /\ UNCHANGED <<files, req, asked, best, size, date, fragment>>

\* Faulty: the end of the fragment is its last byte.
FaultyFragment(f, l) == first' = f /\ last' = l

\* body.fragment, whose end is the byte behind the last one.
Fragment(f, l) == first' = f /\ last' = Plus(l, 1)

PartialContent ==
  /\ pc = "answer" /\ req.ranged
  /\ \E k \in DOMAIN req.header :
       LET f == First(size, req.header[k])
           l == Last(size, req.header[k])
           length == Plus(Minus(l, f), 1)
       IN  /\ IsFront(k, size, req.header)
           /\ Fragment(f, l)
           /\ IF req.method = "head" THEN SendEmpty(206, length, <<f, l>>)
                                     ELSE SendFile(206, length, <<f, l>>)
  /\ UNCHANGED <<files, req, asked, best, size, date>>

WholeFile ==
  /\ pc = "answer" /\ ~req.ranged
  /\ UNCHANGED fragment
  /\ CASE req.method = "head" -> SendEmpty(200, size, <<>>)
       [] req.method = "get" /\ ModifiedSince -> SendEmpty(304, size, <<>>)
       [] OTHER -> SendFile(200, size, <<>>)
  /\ UNCHANGED <<files, req, asked, best, size, date>>

--------------------------------------------------------------------------------
(* The writer of the body.                                                 *)

Least(x, y) == IF x < y THEN x ELSE y

\* get, when there is nothing left of an empty file or range.
NothingToWrite ==
  /\ pc = "writing" /\ remain = 0
  /\ pc' = "finished"
  /\ UNCHANGED <<files, req, asked, best, size, date, resp, fragment, writer>>

\* Where a read begins: get seeks to pos_ first, unless the file is a file_win32.
ReadFrom == IF build = "generic" THEN pos ELSE at

\* How much get reads, as far as the file goes now.
Amount == Least(Least(Buffer, remain), held - ReadFrom)

\* What get returns with the buffer: whether there is more to come.
More == IF build = "generic" THEN remain' > 0 ELSE pos' < last

\* get, and the writing of its buffer.
Get ==
  /\ pc = "writing" /\ remain > 0 /\ ReadFrom < held
  /\ at' = ReadFrom + Amount
  /\ pos' = Plus(pos, Amount)
  /\ remain' = Minus(remain, Amount)
  /\ sent' = sent + Amount
  /\ pc' = IF More THEN "writing" ELSE "finished"
  /\ UNCHANGED <<files, req, asked, best, size, date, resp, fragment>>

\* Faulty: at the end of the file a read is not an error.
FaultyCut ==
  /\ pc = "writing" /\ remain > 0 /\ ReadFrom < held
  /\ pc' = "cut"
  /\ UNCHANGED <<files, req, asked, best, size, date, resp, fragment, writer>>

\* get returns an error: seek or read fails, or the file has no more to read.
Cut ==
  /\ pc = "writing" /\ remain > 0
  /\ pc' = "cut"
  /\ UNCHANGED <<files, req, asked, best, size, date, resp, fragment, writer>>

--------------------------------------------------------------------------------

Handle ==
  \/ Throw \/ Ask \/ GetStatus \/ CarryOn \/ Open \/ AskDate
  \/ NotSatisfiable \/ PartialContent \/ WholeFile
  \/ NothingToWrite \/ Get \/ Cut

Next == Handle \/ ChangeHeld \/ \E r \in 1..Roots : ChangeEntry(r)

Spec == Init /\ [][Next]_vars

\* The calls of the filter and of the writer return.
FairSpec == Spec /\ WF_vars(Handle)

--------------------------------------------------------------------------------
(* Properties.                                                             *)

\* What the header says of the body is what is sent, whatever becomes of the file
\* in between: never more than Content-Length, exactly as much unless the sending
\* is cut, and read from the byte that Content-Range names on.  (With a file_win32,
\* the end of a range in an empty file is not found, as its numbers wrap; and the
\* bytes are others: see ReadsAtPosition.)
BodyAsPromised ==
  resp.body = "file" =>
    /\ sent <= resp.length
    /\ pc = "finished" /\ (build = "generic" \/ size # 0) => sent = resp.length
    /\ build = "generic" /\ sent > 0 =>
         at = Plus(IF resp.range = <<>> THEN 0 ELSE resp.range[1], sent)

\* A range that is answered lies in the file as it was when it was opened.  (In an
\* empty file no range does; there the numbers wrap.)
RangeInFile ==
  resp.status = 206 /\ size # 0 => resp.range[1] <= resp.range[2] /\ resp.range[2] < size

\* Where no number wraps, the answer is the first piece of the header that names
\* bytes of the file, and these bytes; there is none if no piece does.
RangesAsAsked ==
  LET named == [k \in DOMAIN req.header |-> Named(size, req.header[k])]
      naming == {k \in DOMAIN req.header : named[k] # {}}
  IN  (\A k \in DOMAIN req.header : ~Wraps(size, req.header[k])) =>
        /\ resp.status = 416 => naming = {}
        /\ resp.status = 206 =>
             \E k \in naming : /\ \A j \in naming : k <= j
                               /\ resp.range[1]..resp.range[2] = named[k]

\* While the files stay as they are, expand finds a copy if there is one, and the
\* one with the lowest date.
OldestCopy ==
  asked = Roots /\ changes = 0 =>
    LET copies == {r \in 1..Roots : entry[r].kind # "nothing"}
    IN  IF copies = {} THEN best.root = 0
        ELSE best.root \in copies /\ \A r \in copies : entry[best.root].date <= entry[r].date

\* The handling of a request ends, however the file changes while it is sent.
Ends == <>(pc \in {"threw", "carried_on", "finished", "cut"})

\* An answer about a file has the type that the table has for its extension, in
\* letters of any case: of three or four characters always, also when the table's
\* entry is filled up; a shorter one may be missed, as what lies behind it is looked
\* up too, but is never taken for another; and of a longer one four characters count.
TypeByExtension ==
  LET ext == IF Len(req.extension) > 4 THEN SubSeq(req.extension, 1, 4) ELSE req.extension
  IN  resp.body \in {"empty", "file"}
        /\ (\A k \in DOMAIN ext : ext[k] \in LowerCase \cup UpperCase \cup Digit) =>
        /\ resp.type \in {TypeOf(ext), OctetStream}
        /\ Len(ext) >= 3 => resp.type = TypeOf(ext)

\* "Date / if modified since" is done (CONTRIBUTING.md): a client is told that
\* the file has not been modified only if it has not been since the client's date.
NotModified == resp.status = 304 => resp.date <= req.since

\* pos_ is "The current position in the file" (file_body_win32.hh): the bytes that
\* were sent are those that the writer has gone through.
ReadsAtPosition == sent > 0 => at = pos
================================================================================
