-------------------------------- MODULE MCStartup --------------------------------
(***************************************************************************)
(* Startup with every list of at most two entries that differ in what the  *)
(* code looks at: sizes at both ends of the range, unreadable ones, empty  *)
(* texts, two names, two URLs.  One list of a file varies at a time.       *)
(***************************************************************************)
EXTENDS Startup

CONSTANTS Lengths   \* the lengths of the lists

MCTexts == STRING

Seqs(S) == UNION {[1 .. n -> S] : n \in Lengths}

Profiles ==
    [name : {"", "a", "b"}, url : {"", "u"}, snapurl : {"s"},
     width : {99, 100, 9999, 10000, Blank, Word}, height : {100, Word},
     type : {"H264", "VP8"}]

StreamSet ==
    [pipeline : {"", "p"}, udpPort : {"1"}, tcpPort : {"2"},
     rtspUrl : {"/x", "/y"}, testStream : BOOLEAN, testStreamSrc : {"", "ball", "snow"}]

NoSettings ==
    [pidFile |-> Absent, logLevel |-> Absent, logFile |-> Absent, tz |-> Absent,
     other |-> Absent, profiles |-> Absent, streams |-> Absent]

MCFiles ==
    {NoFile, Unreadable}
    \cup {[NoSettings EXCEPT !.profiles = s] : s \in Seqs(Profiles) \cup {Broken}}
    \cup {[NoSettings EXCEPT !.streams = s] : s \in Seqs(StreamSet)}
    \cup {[NoSettings EXCEPT !.tz = t] : t \in {-1, 0, 5, 6, Blank, Word}}
    \cup {[NoSettings EXCEPT !.pidFile = p, !.logLevel = l] :
            p \in {"", "pid", "pid2", Broken}, l \in {Absent, "", "info"}}

=============================================================================
