----------------------------- MODULE RasterJob -----------------------------
(***************************************************************************)
(* The raster callbacks of src/pappl_app.c: PAPPL renders a job and calls  *)
(* raster_rstartjob, then per page raster_rstartpage, raster_rwriteline    *)
(* for each line and raster_rendpage, and at last raster_rendjob, which    *)
(* hands the collected PBM file to foo2zjs.  Jobs follow one another.      *)
(*                                                                         *)
(* PAPPL is external.  It calls nothing after a callback returned false    *)
(* but raster_rendpage (for a page whose line failed) and raster_rendjob;  *)
(* it may cancel a job between any two lines, and still ends the page.     *)
(*                                                                         *)
(* Each callback is one step; raster_rendjob is as many steps as it has    *)
(* system calls that can fail.  "pbm" is what the PBM file really holds,   *)
(* one <<header, rows>> pair per page.                                     *)
(***************************************************************************)
EXTENDS Integers, Sequences

CONSTANTS
    Headers,    \* page headers PAPPL may present: see HeaderShape
    MaxPages,   \* bound: pages of a job
    MaxHeight   \* the tallest page in Headers

\* bits: bits per pixel; paper: paper_code_for_media, 0 when unsupported;
\* geometry: width and resolution; wide: the row outgrows cupsBytesPerLine.
HeaderShape == [bits : {1, 8}, paper : Nat, geometry : Nat,
                height : 1..MaxHeight, wide : BOOLEAN]

ASSUME RasterAssumption ==
    /\ MaxPages \in Nat
    /\ MaxHeight \in Nat
    /\ Headers \subseteq HeaderShape

VARIABLES
    call,      \* what PAPPL is doing with the job
    header,    \* the header of the page PAPPL is on
    lines,     \* lines PAPPL has handed over for this page
    started,   \* pages PAPPL has begun
    job_data,  \* p1102_job_data_t, or NoData
    pbm,       \* what the PBM file holds
    files,     \* the job's temporary files that exist
    encoder,   \* foo2zjs: "none", "running", "ok", "failed"
    stream,    \* what it has left in the ZJS file: "empty", "filled"
    verdict    \* what the callbacks have told the log of this job

papplVars == <<call, header, lines, started>>
hplpVars  == <<job_data, pbm, files, encoder, stream, verdict>>
vars      == <<papplVars, hplpVars>>

NoHeader == [bits |-> 1, paper |-> 0, geometry |-> 0, height |-> 1,
             wide |-> FALSE]

NoData  == [open |-> FALSE, head |-> NoHeader, rows_written |-> 0,
            pages |-> 0, failed |-> FALSE, live |-> FALSE]
NewData == [NoData EXCEPT !.open = TRUE, !.live = TRUE]

TypeOK ==
    /\ call \in {"none", "job", "page", "badpage", "over", "close", "mkstemp",
                 "spawn", "wait", "stat", "cleanup"}
    /\ header \in Headers \cup {NoHeader}
    /\ lines \in 0..MaxHeight
    /\ started \in 0..MaxPages
    /\ job_data \in [open : BOOLEAN, head : Headers \cup {NoHeader},
                     rows_written : 0..MaxHeight, pages : 0..MaxPages,
                     failed : BOOLEAN, live : BOOLEAN]
    /\ pbm \in Seq([head : Headers, rows : 0..MaxHeight])
    /\ files \subseteq {"pbm", "zjs"}
    /\ encoder \in {"none", "running", "ok", "failed"}
    /\ stream \in {"empty", "filled"}
    /\ verdict \in {"none", "encoded"}

Init ==
    /\ call = "none"
    /\ header = NoHeader
    /\ lines = 0
    /\ started = 0
    /\ job_data = NoData
    /\ pbm = <<>>
    /\ files = {}
    /\ encoder = "none"
    /\ stream = "empty"
    /\ verdict = "none"

Step(from, to) == call = from /\ call' = to

-----------------------------------------------------------------------------
(* raster_rstartjob: calloc, mkstemp and fdopen, each undone when a later  *)
(* one fails.                                                              *)

raster_rstartjob ==
    /\ started' = 0
    /\ pbm' = <<>>
    /\ encoder' = "none"
    /\ verdict' = "none"
    /\ UNCHANGED <<header, lines, stream>>
    /\ \/ /\ Step("none", "job")
          /\ job_data' = NewData
          /\ files' = {"pbm"}
       \/ /\ Step("none", "none")
          /\ UNCHANGED <<job_data, files>>

-----------------------------------------------------------------------------
(* raster_rstartpage. *)

Fail == job_data' = [job_data EXCEPT !.failed = TRUE]

SameGeometry(h) ==
    /\ h.geometry = job_data.head.geometry
    /\ h.height = job_data.head.height
    /\ h.paper = job_data.head.paper

PageAccepted(h) ==
    /\ h.bits = 1
    /\ h.paper # 0
    /\ job_data.pages > 0 => SameGeometry(h)

\* Mutant: rows_written goes on counting from page to page.
StartPageCounting(h) ==
    /\ started < MaxPages
    /\ started' = started + 1
    /\ header' = h
    /\ lines' = 0
    /\ PageAccepted(h)
    /\ Step("job", "page")
    /\ pbm' = Append(pbm, [head |-> h, rows |-> 0])
    /\ job_data' = [job_data EXCEPT !.head = IF job_data.pages = 0
                                             THEN h ELSE @]
    /\ UNCHANGED <<files, encoder, stream, verdict>>

raster_rstartpage(h) ==
    /\ started < MaxPages
    /\ started' = started + 1
    /\ header' = h
    /\ lines' = 0
    /\ UNCHANGED <<files, encoder, stream, verdict>>
    /\ \/ /\ PageAccepted(h)                     \* and the header is written
          /\ Step("job", "page")
          /\ pbm' = Append(pbm, [head |-> h, rows |-> 0])
          /\ job_data' = [job_data EXCEPT
                            !.head = IF job_data.pages = 0 THEN h ELSE @,
                            !.rows_written = 0]
       \/ /\ Step("job", "over")                 \* refused, or fprintf failed
          /\ UNCHANGED pbm
          /\ job_data' = [job_data EXCEPT
                            !.head = IF PageAccepted(h) /\ job_data.pages = 0
                                     THEN h ELSE @,
                            !.failed = TRUE]

-----------------------------------------------------------------------------
(* raster_rwriteline. *)

raster_rwriteline ==
    /\ lines < header.height
    /\ lines' = lines + 1
    /\ UNCHANGED <<header, started, files, encoder, stream, verdict>>
    /\ \/ /\ ~job_data.failed
          /\ ~header.wide
          /\ Step("page", "page")
          /\ pbm' = [pbm EXCEPT ![Len(pbm)].rows = @ + 1]
          /\ job_data' = [job_data EXCEPT !.rows_written = @ + 1]
       \/ /\ Step("page", "badpage")             \* too wide, or a short write
          /\ UNCHANGED pbm
          /\ Fail

-----------------------------------------------------------------------------
(* raster_rendpage. *)

raster_rendpage ==
    /\ UNCHANGED <<header, lines, started, pbm, files, encoder, stream,
                   verdict>>
    /\ \/ /\ ~job_data.failed
          /\ job_data.rows_written = job_data.head.height
          /\ Step("page", "job")
          /\ job_data' = [job_data EXCEPT !.pages = @ + 1]
       \/ /\ ~job_data.failed
          /\ job_data.rows_written # job_data.head.height
          /\ Step("page", "over")
          /\ Fail
       \/ /\ job_data.failed
          /\ Step("badpage", "over")
          /\ UNCHANGED job_data

-----------------------------------------------------------------------------
(* raster_rendjob and encode_pbm_to_zjs. *)

\* Mutant: a failed job is encoded as long as it has a whole page.
WorthAnyPage == job_data.pages > 0

Worth == ~job_data.failed /\ job_data.pages > 0

raster_rendjob ==
    /\ call \in {"job", "over"}
    /\ call' = IF Worth THEN "close" ELSE "cleanup"
    /\ UNCHANGED <<header, lines, started, hplpVars>>

ClosePbm ==
    /\ \/ Step("close", "mkstemp")
       \/ Step("close", "cleanup")
    /\ job_data' = [job_data EXCEPT !.open = FALSE]
    /\ UNCHANGED <<header, lines, started, pbm, files, encoder, stream,
                   verdict>>

MakeZjs ==
    /\ \/ /\ Step("mkstemp", "spawn")
          /\ files' = files \cup {"zjs"}
          /\ stream' = "empty"
       \/ /\ Step("mkstemp", "cleanup")
          /\ UNCHANGED <<files, stream>>
    /\ UNCHANGED <<header, lines, started, job_data, pbm, encoder, verdict>>

\* Mutant: a failed fork starts over with a new temporary file.
SpawnRetries ==
    /\ \/ Step("spawn", "wait") /\ encoder' = "running"
       \/ Step("spawn", "mkstemp") /\ UNCHANGED encoder
    /\ UNCHANGED <<header, lines, started, job_data, pbm, files, stream,
                   verdict>>

\* open(pbm_path) and fork.
Spawn ==
    /\ \/ Step("spawn", "wait") /\ encoder' = "running"
       \/ Step("spawn", "cleanup") /\ UNCHANGED encoder
    /\ UNCHANGED <<header, lines, started, job_data, pbm, files, stream,
                   verdict>>

\* foo2zjs ends; "failed" is a signal or a status other than 0.  Whichever it
\* is, it may have written to the stream or not.
Foo2zjs ==
    /\ encoder = "running"
    /\ encoder' \in {"ok", "failed"}
    /\ stream' \in {"empty", "filled"}
    /\ UNCHANGED <<papplVars, job_data, pbm, files, verdict>>

\* Mutant: the status that waitpid returns is not looked at.
WaitPidAnyStatus ==
    /\ \/ encoder # "running" /\ Step("wait", "stat")
       \/ Step("wait", "cleanup")
    /\ UNCHANGED <<header, lines, started, hplpVars>>

\* waitpid returns the status, or fails while foo2zjs may still be running.
WaitPid ==
    /\ \/ /\ encoder # "running"
          /\ Step("wait", IF encoder = "failed" THEN "cleanup" ELSE "stat")
       \/ Step("wait", "cleanup")
    /\ UNCHANGED <<header, lines, started, hplpVars>>

\* The size of the stream, whatever wrote it.
Stat ==
    /\ Step("stat", "cleanup")
    /\ \/ stream = "filled" /\ verdict' = "encoded"
       \/ UNCHANGED verdict
    /\ UNCHANGED <<header, lines, started, job_data, pbm, files, encoder,
                   stream>>

\* Mutant: only the PBM file is unlinked.
CleanupPbm ==
    /\ Step("cleanup", "none")
    /\ job_data' = NoData
    /\ files' = files \ {"pbm"}
    /\ UNCHANGED <<header, lines, started, pbm, encoder, stream, verdict>>

\* cleanup_job_data, and the deliberate "return false".
Cleanup ==
    /\ Step("cleanup", "none")
    /\ job_data' = NoData
    /\ files' = {}
    /\ UNCHANGED <<header, lines, started, pbm, encoder, stream, verdict>>

-----------------------------------------------------------------------------
Pappl ==
    \/ raster_rstartjob
    \/ \E h \in Headers : raster_rstartpage(h)
    \/ raster_rwriteline
    \/ raster_rendpage
    \/ raster_rendjob

Encode == ClosePbm \/ MakeZjs \/ Spawn \/ WaitPid \/ Stat \/ Cleanup

Next == Pappl \/ Encode \/ Foo2zjs

\* raster_rendjob runs on once called, and foo2zjs ends.
Spec == Init /\ [][Next]_vars /\ WF_vars(Encode) /\ WF_vars(Foo2zjs)

-----------------------------------------------------------------------------
(* What the callbacks promise. *)

WholePage(page) ==
    /\ page.rows = page.head.height
    /\ page.head.bits = 1 /\ ~page.head.wide
    /\ page.head.height = pbm[1].head.height
    /\ page.head.geometry = pbm[1].head.geometry
    /\ page.head.paper = pbm[1].head.paper

\* foo2zjs only ever sees a PBM file that holds every page PAPPL started, each
\* with all its rows, all of one geometry: a refused page, a short page, a
\* failed write or a cancelled page never reaches the encoder (159-273, 391).
EncodesWholeJobs ==
    encoder # "none" =>
        /\ Len(pbm) = started /\ started > 0
        /\ \A i \in 1..Len(pbm) : WholePage(pbm[i])

\* "DRY-RUN ZJS OK" is logged only for a job whose encoder exited with 0 and
\* left a stream that is not empty.  An encoder that fails after its first
\* pages leaves one too, so the size (368) says nothing without the status
\* (360-366).
EncodedMeansEncoded ==
    verdict = "encoded" => encoder = "ok" /\ stream = "filled"

\* Between jobs no temporary file and no open stream is left, whichever call
\* failed (86-102, 122-138, 287-366, 394).
NoTemporaryLeft == call = "none" => files = {} /\ ~job_data.open

\* raster_rendjob always returns (360-394).
JobEnds == call \in {"close", "mkstemp", "spawn", "wait", "stat", "cleanup"}
              ~> call = "none"

\* "These safe stubs deliberately reject a print job at rstartjob" (447-451).
RejectedAtStart == call = "none"
=============================================================================
