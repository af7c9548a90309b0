------------------------------ MODULE MCStaticFiles ------------------------------
(* StaticFiles with small files and the ranges that are told apart there.  *)
EXTENDS StaticFilesProofs, TLC

Suffix(b) == [kind |-> "suffix", a |-> 0, b |-> b]
From(a) == [kind |-> "from", a |-> a, b |-> 0]
Span(a, b) == [kind |-> "span", a |-> a, b |-> b]
Unreadable == [kind |-> "unreadable", a |-> 0, b |-> 0]

\* ranges in files of up to four bytes, behind them, longer than they are, the
\* wrong way round, none, and several
MCHeaders ==
  {<<Suffix(0)>>, <<Suffix(2)>>, <<Suffix(5)>>, <<From(0)>>, <<From(2)>>, <<From(4)>>,
   <<Span(0, 0)>>, <<Span(1, 7)>>, <<Span(2, 1)>>, <<>>, <<Unreadable, From(1)>>,
   <<From(4), Suffix(1), Span(0, 1)>>}

OneRequest(method, ranged, header, since) ==
  [target |-> "below", method |-> method, ranged |-> ranged, header |-> header, since |-> since,
   extension |-> <<>>]

\* "htm", "HTM", "html", "html5", "gz", "c", "7Z", and one with a byte below zero
MCExtensions ==
  {<<104, 116, 109>>, <<72, 84, 77>>, <<104, 116, 109, 108>>, <<104, 116, 109, 108, 53>>,
   <<103, 122>>, <<99>>, <<55, 90>>, <<103, 122, -32>>}
MCTypes ==
  (<<104, 116, 109>> :> "text/html") @@ (<<104, 116, 109, 108>> :> "text/html")
    @@ (<<103, 122>> :> "application/gzip") @@ (<<99>> :> "text/x-c")
    @@ (<<55, 122>> :> "application/x-7z-compressed") @@ (<<103, 122, 120>> :> "text/x-gz")
MCMemory == {0, 120}

MCRequests ==
  {OneRequest("get", TRUE, h, None) : h \in MCHeaders}
    \cup {OneRequest("head", TRUE, h, None) : h \in {<<Suffix(5)>>, <<From(4)>>, <<Span(1, 7)>>}}
    \cup {OneRequest("get", FALSE, <<>>, s) : s \in {None, 0, 1, 2}}
    \cup {OneRequest("other", FALSE, <<>>, None), OneRequest("get", TRUE, <<From(1)>>, 1),
          [OneRequest("get", FALSE, <<>>, None) EXCEPT !.target = "mount"]}
    \cup {[OneRequest("head", FALSE, <<>>, None) EXCEPT !.extension = e] : e \in MCExtensions}
================================================================================
