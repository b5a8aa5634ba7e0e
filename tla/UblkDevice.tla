----------------------------- MODULE UblkDevice -----------------------------
(***************************************************************************)
(* serve_ublk (backends/ublk/mod.rs): the kernel device, the symlink that  *)
(* names it and the Ctrl-C handler, which runs in a thread of its own next *)
(* to run_target.  The file system calls are steps of their own, as the    *)
(* handler and the main thread both look at the link and then act on it.   *)
(***************************************************************************)
EXTENDS Naturals

CONSTANTS
    Symlink,    \* TRUE: --device-symlink was given
    Queues      \* number of queues

VARIABLES
    main,       \* where serve_ublk is
    handler,    \* the Ctrl-C handler: unset, set, and where it is when it runs
    device,     \* the kernel device: none, added, live, deleted
    queue,      \* queue -> starting, serving, ended
    link,       \* what the path of the link is: absent, file, dir, link
    made        \* history: announce_ublk_device has made the link

vars == <<main, handler, device, queue, link, made>>

Qs == 1 .. Queues

UInit ==
    /\ main = "build" /\ handler = "unset" /\ device = "none"
    /\ queue = [q \in Qs |-> "starting"]
    /\ link \in {"absent", "file", "dir", "link"} /\ made = FALSE

-----------------------------------------------------------------------------
\* UblkCtrlBuilder.build with UBLK_DEV_F_ADD_DEV, then ctrlc::set_handler,
\* whose failure is only logged.
BuildCtrl ==
    /\ main = "build"
    /\ \/ main' = "failed" /\ UNCHANGED <<handler, device>>
       \/ main' = "run_target" /\ device' = "added" /\ handler' \in {"unset", "set"}
    /\ UNCHANGED <<queue, link, made>>

\* run_target: configure_ublk_device, then the queues' threads and start_dev.
RunTarget ==
    /\ main = "run_target"
    /\ \/ main' = "failed" /\ UNCHANGED device
       \/ device = "added" /\ device' = "live" /\ main' = "announce"
    /\ UNCHANGED <<handler, queue, link, made>>

\* serve_ublk_queue: it returns at once when its channel, its queue or its
\* fetch commands fail, and otherwise when the device is deleted.
QueueStarts(q) ==
    /\ main \in {"announce", "clear", "link", "join"} /\ queue[q] = "starting"
    /\ \E s \in (IF device = "live" THEN {"serving", "ended"} ELSE {"ended"}) :
          queue' = [queue EXCEPT ![q] = s]
    /\ UNCHANGED <<main, handler, device, link, made>>

QueueEnds(q) ==
    /\ queue[q] = "serving" /\ device = "deleted"
    /\ queue' = [queue EXCEPT ![q] = "ended"]
    /\ UNCHANGED <<main, handler, device, link, made>>

\* announce_ublk_device and create_device_symlink: whatever is at the path is
\* removed, except a directory; an error is only logged.
CreateStat ==
    /\ main = "announce"
    /\ \/ main' = "join"      \* no link asked for, no parent directory, or no stat
       \/ Symlink /\ main' = IF link = "absent" THEN "link" ELSE "clear"
    /\ UNCHANGED <<handler, device, queue, link, made>>

CreateClear ==
    /\ main = "clear"
    /\ \/ link \in {"file", "link"} /\ link' = "absent" /\ main' = "link"
       \/ link \in {"dir", "absent"} /\ link' = link /\ main' = "join"
    /\ UNCHANGED <<handler, device, queue, made>>

CreateLink ==
    /\ main = "link" /\ main' = "join"
    /\ link' = IF link = "absent" THEN "link" ELSE link
    /\ made' = (link = "absent")
    /\ UNCHANGED <<handler, device, queue>>

\* run_target returns when every queue has ended.
Join ==
    /\ main = "join" /\ \A q \in Qs : queue[q] = "ended"
    /\ main' = "remove_stat"
    /\ UNCHANGED <<handler, device, queue, link, made>>

-----------------------------------------------------------------------------
\* remove_device_symlink at the end of serve_ublk and in the handler: only a
\* symbolic link is removed.
StatForRemoval(next, done) ==
    IF Symlink /\ link = "link" THEN next ELSE done

\* The removal at the end of serve_ublk.
MainRemoveStat ==
    /\ main = "remove_stat" /\ main' = StatForRemoval("unlink", "ended")
    /\ UNCHANGED <<handler, device, queue, link, made>>

\* remove_file.
Removed(f) == IF f = "dir" THEN "dir" ELSE "absent"

MainUnlink ==
    /\ main = "unlink" /\ link' = Removed(link) /\ main' = "ended"
    /\ UNCHANGED <<handler, device, queue, made>>

\* handle_ctrlc_shutdown: delete the device, then the link.
CtrlC ==
    /\ handler = "set" /\ main \notin {"failed", "ended"}
    /\ handler' = "remove_stat"
    /\ device' \in IF device = "deleted" THEN {device} ELSE {"deleted", device}
    /\ UNCHANGED <<main, queue, link, made>>

HandlerRemoveStat ==
    /\ handler = "remove_stat" /\ handler' = StatForRemoval("unlink", "set")
    /\ UNCHANGED <<main, device, queue, link, made>>

HandlerUnlink ==
    /\ handler = "unlink" /\ link' = Removed(link) /\ handler' = "set"
    /\ UNCHANGED <<main, device, queue, made>>

MainStep == BuildCtrl \/ RunTarget \/ CreateStat \/ CreateClear \/ CreateLink \/ Join
            \/ MainRemoveStat \/ MainUnlink
HandlerStep == HandlerRemoveStat \/ HandlerUnlink
QueueStep == \E q \in Qs : QueueStarts(q) \/ QueueEnds(q)

UNext == MainStep \/ CtrlC \/ HandlerStep \/ QueueStep

USpec == UInit /\ [][UNext]_vars
         /\ WF_vars(MainStep) /\ WF_vars(HandlerStep) /\ WF_vars(QueueStep)

-----------------------------------------------------------------------------
\* When serve_ublk has returned after run_target, no link of this process is
\* left, in whatever order Ctrl-C, the announcement and the removals came.
LinkGone == main = "ended" /\ made => link # "link"

=============================================================================
