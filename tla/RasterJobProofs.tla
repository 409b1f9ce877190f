--------------------------- MODULE RasterJobProofs ---------------------------
(***************************************************************************)
(* The safety invariants of RasterJob, for any set of page headers and any *)
(* length of a job.                                                        *)
(***************************************************************************)
EXTENDS RasterJob, TLAPS

Page == [head : Headers, rows : 0..MaxHeight]

DataRec ==
    [open : BOOLEAN, head : Headers \cup {NoHeader},
     rows_written : 0..MaxHeight, pages : 0..MaxPages,
     failed : BOOLEAN, live : BOOLEAN]

\* Two headers that raster_rstartpage takes for one geometry.
Alike(g, h) ==
    g.geometry = h.geometry /\ g.height = h.height /\ g.paper = h.paper

\* Page i of the PBM file is whole, and like the first.
Whole(i) ==
    /\ pbm[i].rows = pbm[i].head.height
    /\ pbm[i].head.bits = 1 /\ ~pbm[i].head.wide
    /\ Alike(pbm[i].head, pbm[1].head)

AllWhole ==
    /\ Len(pbm) = started /\ started > 0
    /\ \A i \in 1..started : Whole(i)

\* Between two pages of a job that has not failed.
BetweenPages ==
    call = "job" =>
        /\ ~job_data.failed
        /\ Len(pbm) = started /\ job_data.pages = started
        /\ started > 0 => AllWhole /\ Alike(job_data.head, pbm[1].head)

\* On a page: the pages before are whole, and the last one has the rows that
\* were handed over.
OnPage ==
    call = "page" =>
        /\ ~job_data.failed
        /\ header \in Headers
        /\ Len(pbm) = started /\ started = job_data.pages + 1
        /\ pbm[started].head = header /\ pbm[started].rows = lines
        /\ job_data.rows_written = lines /\ lines <= header.height
        /\ header.bits = 1 /\ (lines > 0 => ~header.wide)
        /\ Alike(job_data.head, pbm[1].head) /\ Alike(header, pbm[1].head)
        /\ \A i \in 1..(started - 1) : Whole(i)

Encoding ==
    /\ call \in {"badpage", "over"} => job_data.failed
    /\ call \in {"close", "mkstemp", "spawn", "wait", "stat"} => AllWhole
    /\ encoder # "none" =>
          AllWhole /\ call \in {"wait", "stat", "cleanup", "none"}
    /\ call = "wait" => encoder # "none"
    /\ call = "stat" => encoder = "ok"
    /\ verdict = "encoded" =>
          encoder = "ok" /\ stream = "filled" /\ call \in {"cleanup", "none"}
    /\ call = "none" => files = {} /\ ~job_data.open

RasterInv == TypeOK /\ BetweenPages /\ OnPage /\ Encoding

USE RasterAssumption

\* At the start there is no job.
LEMMA InitRaster == Init => RasterInv
  BY DEF Init, RasterInv, TypeOK, BetweenPages, OnPage, Encoding, NoData,
         NoHeader

-----------------------------------------------------------------------------
\* A job or a page that begins updates two fields of the job's record.
LEMMA DataUpdate ==
  ASSUME NEW r \in DataRec, NEW h \in Headers \cup {NoHeader},
         NEW n \in 0..MaxHeight, NEW b \in BOOLEAN
  PROVE  /\ [r EXCEPT !.head = h, !.rows_written = n] \in DataRec
         /\ [r EXCEPT !.head = h, !.failed = b] \in DataRec
  BY DEF DataRec

\* Opening the PBM file changes nothing of what was written.
LEMMA DataOpened ==
  ASSUME NEW r \in DataRec
  PROVE  /\ [r EXCEPT !.open = TRUE, !.live = TRUE] \in DataRec
         /\ [r EXCEPT !.open = TRUE, !.live = TRUE].pages = r.pages
         /\ [r EXCEPT !.open = TRUE, !.live = TRUE].failed = r.failed
  BY DEF DataRec

\* raster_rstartjob.
LEMMA StartJob ==
  ASSUME RasterInv, raster_rstartjob
  PROVE  RasterInv'
<1>1. NoData \in DataRec /\ NoData.pages = 0 /\ ~NoData.failed
  BY DEF NoData, NoHeader, DataRec
<1>2. NewData \in DataRec /\ NewData.pages = 0 /\ ~NewData.failed
  BY <1>1, DataOpened DEF NewData
<1>3. TypeOK'
  <2>1. job_data \in DataRec
    BY DEF RasterInv, TypeOK, DataRec
  <2>2. job_data' \in DataRec /\ pbm' \in Seq(Page) /\ started' \in 0..MaxPages
    BY <1>2, <2>1 DEF raster_rstartjob
  <2>3. QED
    BY <2>2 DEF RasterInv, TypeOK, raster_rstartjob, Step, DataRec, Page
<1>4. QED
  BY <1>2, <1>3 DEF RasterInv, TypeOK, BetweenPages, OnPage, Encoding,
                    AllWhole, raster_rstartjob, Step

\* A page is appended behind whole pages.
LEMMA PageAdded ==
  ASSUME RasterInv, NEW h \in Headers, raster_rstartpage(h), PageAccepted(h),
         Step("job", "page")
  PROVE  RasterInv'
<1> USE DEF raster_rstartpage, Step
<1>0. /\ pbm \in Seq(Page) /\ started \in Nat /\ Len(pbm) = started
      /\ job_data.pages = started /\ ~job_data.failed
      /\ started > 0 => AllWhole /\ Alike(job_data.head, pbm[1].head)
      /\ encoder = "none" /\ verdict # "encoded"
  BY DEF RasterInv, TypeOK, BetweenPages, Encoding, Page
<1>1. pbm' = Append(pbm, [head |-> h, rows |-> 0])
  OBVIOUS
<1>2. [head |-> h, rows |-> 0] \in Page
  BY DEF Page, HeaderShape
<1>3. /\ pbm' \in Seq(Page) /\ Len(pbm') = started'
      /\ pbm'[started'] = [head |-> h, rows |-> 0]
      /\ \A i \in 1..started : pbm'[i] = pbm[i]
  BY <1>0, <1>1, <1>2
<1>4. job_data' = [job_data EXCEPT
                     !.head = IF job_data.pages = 0 THEN h ELSE @,
                     !.rows_written = 0]
  OBVIOUS
<1>5. TypeOK'
  <2>1. job_data \in DataRec /\ 0 \in 0..MaxHeight
    BY DEF RasterInv, TypeOK, DataRec
  <2>2. PICK g \in Headers \cup {NoHeader} :
           job_data' = [job_data EXCEPT !.head = g, !.rows_written = 0]
    BY <2>1, <1>4 DEF DataRec
  <2>3. job_data' \in DataRec
    BY <2>1, <2>2, DataUpdate
  <2>4. QED
    BY <1>3, <2>3 DEF RasterInv, TypeOK, DataRec, Page
<1>6. h.bits = 1 /\ (started > 0 => Alike(h, job_data.head))
  BY <1>0 DEF PageAccepted, SameGeometry, Alike
<1>7. Alike(job_data'.head, pbm'[1].head) /\ Alike(h, pbm'[1].head)
  <2>1. CASE started = 0
    BY <2>1, <1>0, <1>3, <1>4 DEF Alike, RasterInv, TypeOK
  <2>2. CASE started > 0
    <3>1. pbm'[1] = pbm[1] /\ job_data'.head = job_data.head
      BY <2>2, <1>0, <1>3, <1>4 DEF RasterInv, TypeOK
    <3>2. QED
      BY <3>1, <2>2, <1>0, <1>6 DEF Alike
  <2>3. QED
    BY <2>1, <2>2, <1>0
<1>8. \A i \in 1..started : Whole(i)'
  BY <1>0, <1>3 DEF AllWhole, Whole, Alike
<1>9. OnPage'
  <2>1. /\ started' = started + 1 /\ header' = h /\ lines' = 0
        /\ job_data'.failed = job_data.failed
        /\ job_data'.pages = job_data.pages /\ job_data'.rows_written = 0
    BY <1>4 DEF RasterInv, TypeOK
  <2>2. h.height \in Nat
    BY DEF HeaderShape
  <2>3. \A i \in 1..(started' - 1) : Whole(i)'
    BY <1>0, <1>8, <2>1
  <2>4. /\ ~job_data'.failed /\ Len(pbm') = started'
        /\ started' = job_data'.pages + 1
    BY <1>0, <1>3, <2>1
  <2>5. pbm'[started'].head = h /\ pbm'[started'].rows = 0
    BY <1>3
  <2> HIDE DEF raster_rstartpage, Step
  <2>6. QED
    BY <1>6, <1>7, <2>1, <2>2, <2>3, <2>4, <2>5 DEF OnPage
<1>10. BetweenPages' /\ Encoding'
  BY <1>0 DEF BetweenPages, Encoding
<1>11. QED
  BY <1>5, <1>9, <1>10 DEF RasterInv

\* raster_rstartpage, for a page that is accepted and one that is not.
LEMMA StartPage ==
  ASSUME RasterInv, NEW h \in Headers, raster_rstartpage(h)
  PROVE  RasterInv'
<1>1. CASE PageAccepted(h) /\ Step("job", "page")
  BY <1>1, PageAdded
<1>2. CASE Step("job", "over") /\ UNCHANGED pbm
  <2>1. PICK g \in Headers \cup {NoHeader} :
           job_data' = [job_data EXCEPT !.head = g, !.failed = TRUE]
    BY <1>2 DEF raster_rstartpage, Step, RasterInv, TypeOK
  <2>2. job_data' \in DataRec /\ job_data'.failed
    BY <2>1, DataUpdate DEF RasterInv, TypeOK, DataRec
  <2>3. TypeOK'
    BY <1>2, <2>2 DEF RasterInv, TypeOK, DataRec, raster_rstartpage, Step
  <2>4. QED
    BY <1>2, <2>2, <2>3
       DEF RasterInv, BetweenPages, OnPage, Encoding, raster_rstartpage, Step
<1>3. QED
  BY <1>1, <1>2 DEF raster_rstartpage

-----------------------------------------------------------------------------
\* A row is added to the last page, and to no other.
LEMMA RowAdded ==
  ASSUME RasterInv, raster_rwriteline, Step("page", "page")
  PROVE  RasterInv'
<1> USE DEF raster_rwriteline, Step
<1>0. /\ pbm \in Seq(Page) /\ started \in Nat /\ Len(pbm) = started
      /\ started > 0 /\ OnPage /\ call = "page" /\ header \in Headers
      /\ header.height \in 1..MaxHeight
      /\ lines \in Nat /\ lines < header.height
      /\ encoder = "none" /\ verdict # "encoded"
  <2>1. /\ pbm \in Seq(Page) /\ started \in Nat /\ lines \in Nat
        /\ call = "page" /\ lines < header.height /\ job_data.pages \in Nat
    BY DEF RasterInv, TypeOK, Page
  <2>2. /\ OnPage /\ header \in Headers
        /\ Len(pbm) = started /\ started = job_data.pages + 1
    BY <2>1 DEF RasterInv, OnPage
  <2>3. encoder = "none" /\ verdict # "encoded"
    BY <2>1 DEF RasterInv, Encoding
  <2>4. header.height \in 1..MaxHeight
    BY <2>2 DEF HeaderShape
  <2> HIDE DEF raster_rwriteline, Step
  <2>5. QED
    BY <2>1, <2>2, <2>3, <2>4
<1>1. pbm' = [pbm EXCEPT ![started] = [head |-> header, rows |-> lines + 1]]
  <2>1. /\ pbm' = [pbm EXCEPT ![Len(pbm)] =
                     [pbm[Len(pbm)] EXCEPT !.rows = @ + 1]]
        /\ pbm[started] \in Page
    BY <1>0
  <2>2. [pbm[started] EXCEPT !.rows = @ + 1]
           = [head |-> header, rows |-> lines + 1]
    <3>1. pbm[started].head = header /\ pbm[started].rows = lines
      BY <1>0 DEF OnPage
    <3> HIDE DEF raster_rwriteline, Step
    <3>2. QED
      BY <2>1, <3>1 DEF Page
  <2>3. QED
    BY <1>0, <2>1, <2>2
<1>2. [head |-> header, rows |-> lines + 1] \in Page
  BY <1>0 DEF Page
<1>3. /\ pbm' \in Seq(Page) /\ Len(pbm') = started
      /\ pbm'[started] = [head |-> header, rows |-> lines + 1]
      /\ \A i \in 1..(started - 1) : pbm'[i] = pbm[i]
  BY <1>0, <1>1, <1>2
<1>4. job_data' = [job_data EXCEPT !.rows_written = @ + 1] /\ ~header.wide
  BY <1>0 DEF OnPage, Fail
<1>5. TypeOK'
  <2>1. lines + 1 \in 0..MaxHeight /\ job_data.rows_written + 1 = lines + 1
    BY <1>0 DEF OnPage
  <2>2. job_data' \in DataRec
    BY <2>1, <1>4 DEF RasterInv, TypeOK, DataRec
  <2>3. QED
    BY <1>3, <2>1, <2>2 DEF RasterInv, TypeOK, DataRec, Page
<1>6. pbm'[1].head = pbm[1].head
  <2>1. CASE started = 1
    BY <2>1, <1>0, <1>3 DEF OnPage
  <2>2. CASE started # 1
    BY <2>2, <1>0, <1>3
  <2>3. QED
    BY <2>1, <2>2
<1>7. \A i \in 1..(started - 1) : Whole(i)'
  BY <1>0, <1>3, <1>6 DEF OnPage, Whole, Alike
<1>8. job_data'.head = job_data.head /\ job_data'.pages = job_data.pages
      /\ job_data'.failed = job_data.failed
      /\ job_data'.rows_written = lines + 1
  BY <1>0, <1>4 DEF RasterInv, TypeOK, OnPage
<1>9. OnPage'
  BY <1>0, <1>3, <1>4, <1>6, <1>7, <1>8 DEF OnPage, Alike
<1>10. BetweenPages' /\ Encoding'
  BY <1>0 DEF BetweenPages, Encoding
<1>11. QED
  BY <1>5, <1>9, <1>10 DEF RasterInv

\* raster_rwriteline.
LEMMA WriteLine ==
  ASSUME RasterInv, raster_rwriteline
  PROVE  RasterInv'
<1>1. CASE Step("page", "page")
  BY <1>1, RowAdded
<1>2. CASE Step("page", "badpage") /\ Fail /\ UNCHANGED pbm
  <2>1. header.height <= MaxHeight /\ lines + 1 \in 0..MaxHeight
    <3>1. lines \in Nat /\ lines < header.height /\ header \in Headers
      BY <1>2 DEF RasterInv, TypeOK, OnPage, raster_rwriteline, Step
    <3>2. header.height \in 1..MaxHeight
      BY <3>1 DEF HeaderShape
    <3>3. QED
      BY <3>1, <3>2
  <2>2. job_data' \in DataRec /\ job_data'.failed
    BY <1>2 DEF RasterInv, TypeOK, DataRec, Fail
  <2>3. TypeOK'
    BY <1>2, <2>1, <2>2 DEF RasterInv, TypeOK, DataRec, raster_rwriteline,
                            Step
  <2>4. QED
    BY <1>2, <2>2, <2>3
       DEF RasterInv, BetweenPages, OnPage, Encoding, raster_rwriteline, Step
<1>3. QED
  BY <1>1, <1>2 DEF raster_rwriteline

-----------------------------------------------------------------------------
\* raster_rendpage.
LEMMA EndPage ==
  ASSUME RasterInv, raster_rendpage
  PROVE  RasterInv'
<1> USE DEF raster_rendpage, Step
<1>1. CASE call = "page" /\ call' = "job"
  <2>0. /\ started \in Nat /\ started > 0 /\ OnPage /\ header \in Headers
        /\ header.height \in 1..MaxHeight /\ pbm' = pbm /\ started' = started
        /\ started <= MaxPages /\ job_data.rows_written = job_data.head.height
    <3>1. /\ started \in Nat /\ started <= MaxPages /\ job_data.pages \in Nat
          /\ OnPage /\ pbm' = pbm /\ started' = started
          /\ job_data.rows_written = job_data.head.height
      BY <1>1 DEF RasterInv, TypeOK
    <3>2. header \in Headers /\ started = job_data.pages + 1
      BY <1>1, <3>1 DEF OnPage
    <3>3. header.height \in 1..MaxHeight
      BY <3>2 DEF HeaderShape
    <3>4. QED
      BY <3>1, <3>2, <3>3
  <2>1. job_data' = [job_data EXCEPT !.pages = @ + 1]
    BY <1>1, <2>0 DEF OnPage
  <2>2. /\ job_data'.pages = started /\ job_data'.head = job_data.head
        /\ ~job_data'.failed
    BY <1>1, <2>0, <2>1 DEF RasterInv, TypeOK, OnPage
  <2>3. Whole(started)
    BY <1>1, <2>0 DEF OnPage, Whole, Alike
  <2>4. AllWhole'
    BY <1>1, <2>0, <2>3 DEF OnPage, AllWhole, Whole
  <2>5. TypeOK'
    BY <1>1, <2>0, <2>1 DEF RasterInv, TypeOK, OnPage
  <2>6. Alike(job_data'.head, pbm'[1].head)
    BY <1>1, <2>0, <2>2 DEF OnPage, Alike
  <2>7. BetweenPages'
    BY <1>1, <2>0, <2>2, <2>4, <2>6 DEF BetweenPages, AllWhole
  <2>8. OnPage' /\ Encoding'
    BY <1>1 DEF RasterInv, OnPage, Encoding
  <2>9. QED
    BY <2>5, <2>7, <2>8 DEF RasterInv
<1>2. CASE call' = "over"
  BY <1>2 DEF RasterInv, TypeOK, BetweenPages, OnPage, Encoding, AllWhole,
              Whole, Fail
<1>3. QED
  BY <1>1, <1>2

-----------------------------------------------------------------------------
\* raster_rendjob goes to the encoder with whole pages only, and each system
\* call on its way leaves the PBM file as it is.
LEMMA EndJob ==
  ASSUME RasterInv, raster_rendjob \/ Encode \/ Foo2zjs
  PROVE  RasterInv'
<1> USE DEF Step, papplVars, hplpVars
<1>1. CASE raster_rendjob
  <2>1. Worth => AllWhole
    BY <1>1 DEF raster_rendjob, Worth, RasterInv, BetweenPages, Encoding
  <2>2. TypeOK' /\ (AllWhole => AllWhole')
    BY <1>1 DEF raster_rendjob, RasterInv, TypeOK, AllWhole, Whole, Alike
  <2>3. QED
    BY <1>1, <2>1, <2>2
       DEF raster_rendjob, RasterInv, BetweenPages, OnPage, Encoding
<1>2. CASE Foo2zjs
  BY <1>2 DEF Foo2zjs, RasterInv, TypeOK, BetweenPages, OnPage, Encoding,
              AllWhole, Whole, Alike
<1>3. CASE ClosePbm
  <2>1. job_data' \in DataRec /\ job_data'.failed = job_data.failed
    BY <1>3 DEF ClosePbm, RasterInv, TypeOK, DataRec
  <2>2. TypeOK' /\ (AllWhole => AllWhole')
    BY <1>3, <2>1 DEF ClosePbm, RasterInv, TypeOK, DataRec, AllWhole, Whole,
                      Alike
  <2>3. QED
    BY <1>3, <2>1, <2>2
       DEF ClosePbm, RasterInv, BetweenPages, OnPage, Encoding
<1>4. CASE MakeZjs \/ Spawn \/ WaitPid \/ Stat
  <2>1. TypeOK' /\ (AllWhole => AllWhole')
    BY <1>4 DEF MakeZjs, Spawn, WaitPid, Stat, RasterInv, TypeOK, AllWhole,
                Whole, Alike
  <2>2. QED
    BY <1>4, <2>1 DEF MakeZjs, Spawn, WaitPid, Stat, RasterInv, BetweenPages,
                      OnPage, Encoding, TypeOK
<1>5. CASE Cleanup
  <2>1. NoData \in DataRec /\ ~NoData.open
    BY DEF NoData, NoHeader, DataRec
  <2>2. TypeOK' /\ (AllWhole => AllWhole')
    BY <1>5, <2>1 DEF Cleanup, RasterInv, TypeOK, DataRec, AllWhole, Whole,
                      Alike
  <2>3. QED
    BY <1>5, <2>1, <2>2
       DEF Cleanup, RasterInv, BetweenPages, OnPage, Encoding
<1>6. QED
  BY <1>1, <1>2, <1>3, <1>4, <1>5 DEF Encode

\* A step of none keeps the invariant.
LEMMA RasterStutters ==
  ASSUME RasterInv, UNCHANGED vars
  PROVE  RasterInv'
  BY DEF RasterInv, TypeOK, BetweenPages, OnPage, Encoding, AllWhole, Whole,
         Alike, vars, papplVars, hplpVars

-----------------------------------------------------------------------------
\* The PBM file, the job's record and the encoder agree at every callback and
\* system call.
THEOREM RasterInvariant == Spec => []RasterInv
<1>1. RasterInv /\ [Next]_vars => RasterInv'
  BY StartJob, StartPage, WriteLine, EndPage, EndJob, RasterStutters
     DEF Next, Pappl
<1>2. QED
  BY <1>1, InitRaster, PTL DEF Spec

\* Every record and counter of a job has its type; rows_written and pages stay
\* within the page and the job.
THEOREM RasterTypesCorrect == Spec => []TypeOK
<1>1. RasterInv => TypeOK
  BY DEF RasterInv
<1>2. QED
  BY <1>1, RasterInvariant, PTL

\* foo2zjs never sees a PBM file with a page that is missing, short or of
\* another geometry, however long the job and whatever PAPPL presents.
THEOREM OnlyWholeJobs == Spec => []EncodesWholeJobs
<1>1. RasterInv => EncodesWholeJobs
  BY DEF RasterInv, Encoding, AllWhole, Whole, Alike, EncodesWholeJobs,
         WholePage
<1>2. QED
  BY <1>1, RasterInvariant, PTL

\* The log says "OK" for a stream only that is not empty and that foo2zjs wrote
\* and ended well: stat is reached through a status of 0 alone, and nothing
\* writes to the stream after it.
THEOREM OkMeansOk == Spec => []EncodedMeansEncoded
<1>1. RasterInv => EncodedMeansEncoded
  BY DEF RasterInv, Encoding, EncodedMeansEncoded
<1>2. QED
  BY <1>1, RasterInvariant, PTL

\* No job leaves a temporary file or an open stream behind.
THEOREM NoTemporarySurvives == Spec => []NoTemporaryLeft
<1>1. RasterInv => NoTemporaryLeft
  BY DEF RasterInv, Encoding, NoTemporaryLeft
<1>2. QED
  BY <1>1, RasterInvariant, PTL
=============================================================================
