----------------------------- MODULE RenderTest -----------------------------
(***************************************************************************)
(* The rendering of the test page (src/render_test.c): write a PostScript  *)
(* page to a temporary file, have foo2zjs-wrapper turn it into a second    *)
(* one, and hand that file to the caller, which unlinks it.  The program   *)
(* is run with --render-test, or as the first half of --print-test.        *)
(*                                                                         *)
(* One step is one system call that can fail, with the calls that undo     *)
(* what went before.  An interrupted write is stuttering.  The caller's    *)
(* buffer of 128 bytes holds every path mkstemp makes, so the last check of*)
(* hplp_render_p1102_test_file never fails.                                *)
(***************************************************************************)
EXTENDS Integers

CONSTANTS
    Processes,   \* the programs that render
    PageBytes    \* sizeof(TEST_PS) - 1

ASSUME RenderAssumption == PageBytes \in Nat \ {0}

VARIABLES
    rpc,      \* the system call each process makes next
    written,  \* write_all's offset
    files,    \* the temporary files of each process that exist
    fds,      \* those it has open
    wrapper,  \* foo2zjs-wrapper: not run, running, or how it ended: with a
              \* stream, with an empty one, or with an error
    code      \* what hplp_render_p1102_test_file returned

renderVars == <<rpc, written, files, fds, wrapper, code>>

RenderTypeOK ==
    /\ rpc \in [Processes -> {"idle", "write", "close", "mkstemp", "fork",
                              "wait", "stat", "done"}]
    /\ written \in [Processes -> 0..PageBytes]
    /\ files \in [Processes -> SUBSET {"ps", "zjs"}]
    /\ fds \in [Processes -> SUBSET {"ps", "zjs"}]
    /\ wrapper \in [Processes -> {"none", "running", "stream", "empty",
                                  "error"}]
    /\ code \in [Processes -> {0, 1}]

RenderInit ==
    /\ rpc = [a \in Processes |-> "idle"]
    /\ written = [a \in Processes |-> 0]
    /\ files = [a \in Processes |-> {}]
    /\ fds = [a \in Processes |-> {}]
    /\ wrapper = [a \in Processes |-> "none"]
    /\ code = [a \in Processes |-> 0]

Sys(a, from, to) ==
    /\ rpc[a] = from
    /\ rpc' = [rpc EXCEPT ![a] = to]

Files(a, f) == files' = [files EXCEPT ![a] = f]
Fds(a, f)   == fds' = [fds EXCEPT ![a] = f]
Return(a, n) == code' = [code EXCEPT ![a] = n]

\* "return 1", with everything closed and unlinked.
RenderFails(a, from) ==
    /\ Sys(a, from, "done")
    /\ Files(a, {})
    /\ Fds(a, {})
    /\ Return(a, 1)

-----------------------------------------------------------------------------
(* hplp_render_p1102_test_file. *)

MakePs(a) ==
    /\ written' = [written EXCEPT ![a] = 0]
    /\ wrapper' = [wrapper EXCEPT ![a] = "none"]
    /\ \/ Sys(a, "idle", "write") /\ Files(a, {"ps"}) /\ Fds(a, {"ps"})
          /\ UNCHANGED code
       \/ RenderFails(a, "idle")

\* Mutant: each write is given the length of the page, from its offset on.
WriteOver(a) ==
    /\ \/ \E n \in 1..PageBytes :
             /\ Sys(a, "write",
                    IF written[a] + n >= PageBytes THEN "close" ELSE "write")
             /\ written' = [written EXCEPT ![a] = @ + n]
             /\ UNCHANGED <<files, fds, code>>
       \/ RenderFails(a, "write") /\ UNCHANGED written
    /\ UNCHANGED wrapper

\* write_all: a write may take less than it was given.
WriteSome(a) ==
    /\ \/ \E n \in 1..(PageBytes - written[a]) :
             /\ Sys(a, "write",
                    IF written[a] + n = PageBytes THEN "close" ELSE "write")
             /\ written' = [written EXCEPT ![a] = @ + n]
             /\ UNCHANGED <<files, fds, code>>
       \/ RenderFails(a, "write") /\ UNCHANGED written
    /\ UNCHANGED wrapper

ClosePs(a) ==
    /\ \/ Sys(a, "close", "mkstemp") /\ Fds(a, {}) /\ UNCHANGED <<files, code>>
       \/ RenderFails(a, "close")
    /\ UNCHANGED <<written, wrapper>>

MakeZjs(a) ==
    /\ \/ /\ Sys(a, "mkstemp", "fork")
          /\ Files(a, {"ps", "zjs"})
          /\ Fds(a, {"zjs"})
          /\ UNCHANGED code
       \/ RenderFails(a, "mkstemp")
    /\ UNCHANGED <<written, wrapper>>

\* Mutant: the PostScript file is unlinked as soon as the child has its name.
ForkUnlinks(a) ==
    /\ \/ /\ Sys(a, "fork", "wait")
          /\ wrapper' = [wrapper EXCEPT ![a] = "running"]
          /\ Fds(a, {})
          /\ Files(a, {"zjs"})
          /\ UNCHANGED code
       \/ RenderFails(a, "fork") /\ UNCHANGED wrapper
    /\ UNCHANGED written

\* fork, the child's exec, and the parent's close of the ZJS file.
Fork(a) ==
    /\ \/ /\ Sys(a, "fork", "wait")
          /\ wrapper' = [wrapper EXCEPT ![a] = "running"]
          /\ Fds(a, {})
          /\ UNCHANGED <<files, code>>
       \/ RenderFails(a, "fork") /\ UNCHANGED wrapper
    /\ UNCHANGED written

\* The child: a failed dup2 or execl ends it with an error too.
Wrapper(a) ==
    /\ wrapper[a] = "running"
    /\ \E end \in {"stream", "empty", "error"} :
          wrapper' = [wrapper EXCEPT ![a] = end]
    /\ UNCHANGED <<rpc, written, files, fds, code>>

\* Mutant: the exit status is not looked at.
WaitAnyStatus(a) ==
    /\ wrapper[a] # "running"
    /\ Sys(a, "wait", "stat")
    /\ Files(a, {"zjs"})
    /\ UNCHANGED <<written, fds, wrapper, code>>

\* waitpid, the unlink of the PostScript file and the exit status.  These
\* programs install no signal handler, so waitpid is not interrupted; it fails
\* when SIGCHLD is ignored, and then it returns after the child has ended.
Wait(a) ==
    /\ wrapper[a] # "running"
    /\ \/ /\ wrapper[a] # "error"
          /\ Sys(a, "wait", "stat")
          /\ Files(a, {"zjs"})
          /\ UNCHANGED <<fds, code>>
       \/ RenderFails(a, "wait")
    /\ UNCHANGED <<written, wrapper>>

\* stat: hand the file over if there is something in it.
Stat(a) ==
    /\ \/ /\ wrapper[a] # "empty"
          /\ Sys(a, "stat", "done")
          /\ Return(a, 0)
          /\ UNCHANGED <<files, fds>>
       \/ RenderFails(a, "stat")
    /\ UNCHANGED <<written, wrapper>>

Render(a) ==
    \/ WriteSome(a) \/ ClosePs(a) \/ MakeZjs(a) \/ Fork(a) \/ Wait(a)
    \/ Stat(a)

-----------------------------------------------------------------------------
(* hplp_render_p1102_test: --render-test. *)

\* Mutant: the rendered file is left for somebody to look at.
KeepPage(a) ==
    /\ Sys(a, "done", "idle")
    /\ UNCHANGED <<written, files, fds, wrapper, code>>

UnlinkPage(a) ==
    /\ Sys(a, "done", "idle")
    /\ Files(a, {})
    /\ UNCHANGED <<written, fds, wrapper, code>>

RenderNext == \E a \in Processes :
                  MakePs(a) \/ Render(a) \/ Wrapper(a) \/ UnlinkPage(a)

RenderSpec == RenderInit /\ [][RenderNext]_renderVars

-----------------------------------------------------------------------------
(* What the rendering promises. *)

\* foo2zjs-wrapper starts on the whole page in a file that is closed, and
\* nothing is unlinked under it while it runs.  A caller that gets 0 gets the
\* file of a wrapper that succeeded, not an empty one; a caller that gets 1 has
\* nothing to unlink.  Neither gets an open file (70-166).
RenderContract ==
    \A a \in Processes :
        /\ wrapper[a] # "none" => written[a] = PageBytes /\ "ps" \notin fds[a]
        /\ wrapper[a] = "running" => files[a] = {"ps", "zjs"}
        /\ rpc[a] = "done" =>
              /\ fds[a] = {}
              /\ code[a] = 0 => files[a] = {"zjs"} /\ wrapper[a] = "stream"
              /\ code[a] = 1 => files[a] = {}
=============================================================================
