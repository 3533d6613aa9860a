------------------------------- MODULE Files -------------------------------
(***************************************************************************)
(* Tasks that share and copy descriptor tables: open(), close(), dup(),    *)
(* dup2(), read(), fork(), execve() and exit() on the tables of FdTable,   *)
(* with the references to files dropped through TaskWork.                  *)
(*                                                                         *)
(* The kernel is not preemptible and has one CPU, so a task keeps the CPU  *)
(* while it holds files->file_lock; a step ends where the code may sleep:  *)
(* in the allocation of a bigger table, in the path walk of open(), in the *)
(* body of read(), in ->release().  No file of this kernel has a ->flush().*)
(***************************************************************************)
EXTENDS FdTable, TaskWork

CONSTANTS
  init,        \* the first task, which may not exit
  Structs,     \* the files_structs
  OpenCloexec  \* whether open() is called with O_CLOEXEC, a bound

ASSUME FilesAssumption ==
  /\ init \in Tasks \ KThreads
  /\ NULL \notin Tasks \cup Structs /\ IsFiniteSet(Tasks) /\ IsFiniteSet(Structs)
  /\ OpenCloexec \subseteq BOOLEAN

VARIABLES
  tab,         \* the files_structs
  tfiles,      \* task->files
  pc,          \* where each task stands
  loc,         \* its local variables
  fd_array,    \* files->fd_array[], when files->fdt does not point to it any more
  short,       \* history: files of which a reference was dropped but not taken
  torn         \* history: an exec closed a descriptor of a replaced fdtable

fileVars == <<tab, tfiles, pc, loc, fd_array>>

vars == <<workVars, fileVars, short, torn>>

\* "none": no such task; "new": being forked; "user": in user mode, or a
\* kernel thread between two calls; "leave": on the way back there, running
\* works; "exit_run": in exit_task_work(); the others: in a system call.
Location ==
  {"none", "new", "user", "leave", "resize", "resize_wait", "install", "use",
   "dup_fd", "exec", "exit_files", "exit_run"}

\* op: the call that alloc_fd() or expand_files() returns to; file: the file
\* in hand; fd, fd2: descriptors; files, child: the table and the task that
\* fork() makes; set: the descriptors that do_close_on_exec() has yet to close
\* of the word of fd, in the fdtable of size fd2.
NoLocals ==
  [op |-> "none", file |-> NULL, fd |-> 0, fd2 |-> 0, files |-> NULL, child |-> NULL, set |-> {}]

Init ==
  /\ f_count = [f \in Files |-> 0] /\ alloc = {}
  /\ task_works = [t \in Tasks |-> <<>>]
  /\ work_exited = {}
  /\ delayed_fput_list = <<>>
  /\ pending = FALSE
  /\ todo = [t \in Tasks |-> <<>>]
  /\ \E a \in Structs : /\ tab = [s \in Structs |-> IF s = a THEN NewTable ELSE NoTable]
                        /\ tfiles = [t \in Tasks |-> IF t = init THEN a ELSE NULL]
  /\ pc = [t \in Tasks |-> IF t = init \/ t \in KThreads THEN "user" ELSE "none"]
  /\ loc = [t \in Tasks |-> NoLocals]
  /\ fd_array = [s \in Structs |-> [i \in Fds |-> NULL]]
  /\ short = {} /\ torn = FALSE

At(t, where) == pc[t] = where

\* The table of task t.
T(t) == tab[tfiles[t]]

go(t, where, locals) ==
  /\ pc' = [pc EXCEPT ![t] = where]
  /\ loc' = [loc EXCEPT ![t] = locals]

\* The system call is over: exit_to_user_mode_loop() if there are works.
done(t) == go(t, IF task_works'[t] = <<>> /\ todo'[t] = <<>> THEN "user" ELSE "leave", NoLocals)

put_table(t, table) == tab' = [tab EXCEPT ![tfiles[t]] = table]

keepWorks == UNCHANGED <<task_works, work_exited, delayed_fput_list, pending, todo, alloc>>

----------------------------------------------------------------------------
(* Descriptors *)

\* do_dup2(): the file of fd2 takes the place of what fd holds.  A descriptor
\* that another task is about to install a file in is busy.
do_dup2(t, table, l) ==
  LET file == table.fd[l.fd2]
      tofree == table.fd[l.fd]
      refs == [f_count EXCEPT ![file] = @ + 1]
  IN IF file = NULL \/ (tofree = NULL /\ l.fd \in table.open)
     THEN put_table(t, table) /\ UNCHANGED workVars
     ELSE /\ put_table(t, __set_close_on_exec(
                 __set_open_fd([table EXCEPT !.fd[l.fd] = file], l.fd), l.fd, FALSE))
          /\ IF tofree = NULL THEN f_count' = refs /\ keepWorks ELSE fput(t, tofree, refs)

\* No descriptor: dup() drops its file.
no_fd(t, l, refs) ==
  /\ IF l.op = "dup" THEN fput(t, l.file, refs) ELSE f_count' = refs /\ keepWorks
  /\ done(t)

\* alloc_fd(), and the beginning of dup3(): find a descriptor in the table
\* and go on with what wants it, or see to it that the table grows.  refs is
\* f_count with the reference that dup() has just taken.  (The sets of one
\* element are there for TLC, which evaluates them once.)
want_fd(t, table, l, refs) ==
  \E nr \in {IF l.op = "dup2" THEN l.fd ELSE candidate(table)} :
  \E verdict \in {IF nr >= NOFILE THEN "EMFILE" ELSE expand_files(table, nr)} :
     \/ /\ verdict = "fits" /\ l.op = "dup2"
        /\ do_dup2(t, table, l)
        /\ done(t)
     \/ /\ verdict = "fits" /\ l.op = "dup"
        /\ put_table(t, [take_fd(table, nr, FALSE) EXCEPT !.fd[nr] = l.file])
        /\ f_count' = refs /\ keepWorks
        /\ done(t)
     \/ /\ verdict = "fits" /\ l.op = "open"
        /\ \E cloexec \in OpenCloexec : put_table(t, take_fd(table, nr, cloexec))
        /\ f_count' = refs /\ keepWorks
        /\ go(t, "install", [l EXCEPT !.fd = nr])
     \/ /\ verdict = "expand"
        /\ put_table(t, [table EXCEPT !.resizing = TRUE])
        /\ f_count' = refs /\ keepWorks
        /\ go(t, "resize", [l EXCEPT !.fd = nr])
     \/ /\ verdict = "wait"
        /\ put_table(t, table)
        /\ f_count' = refs /\ keepWorks
        /\ go(t, "resize_wait", [l EXCEPT !.fd = nr])
     \/ /\ verdict = "EMFILE"
        /\ put_table(t, table)
        /\ no_fd(t, l, refs)

\* A task in user mode makes a system call.
Calls(t) == At(t, "user") /\ t \notin KThreads

\* do_sys_openat2(): the descriptor first.
open(t) ==
  /\ Calls(t)
  /\ want_fd(t, T(t), [NoLocals EXCEPT !.op = "open"], f_count)
  /\ UNCHANGED tfiles

\* __fget_files_rcu() takes a reference where there is one; it would go round
\* and round on a file without.
Fgets(t, fd) == T(t).fd[fd] # NULL /\ f_count[T(t).fd[fd]] > 0

dup(t, fd) ==
  /\ Calls(t)
  /\ Fgets(t, fd)
  /\ want_fd(t, T(t), [NoLocals EXCEPT !.op = "dup", !.file = T(t).fd[fd]],
             [f_count EXCEPT ![T(t).fd[fd]] = @ + 1])
  /\ UNCHANGED tfiles

dup2(t, oldfd, newfd) ==
  /\ Calls(t)
  /\ oldfd # newfd /\ newfd < NOFILE
  /\ want_fd(t, T(t), [NoLocals EXCEPT !.op = "dup2", !.fd = newfd, !.fd2 = oldfd], f_count)
  /\ UNCHANGED tfiles

\* What the embedded array holds when another one takes its place.  The fdtable
\* that is embedded is the one of NR_OPEN_DEFAULT descriptors.
replace_fdtable(t) ==
  fd_array' = IF T(t).max_fds = NR_OPEN_DEFAULT THEN [fd_array EXCEPT ![tfiles[t]] = T(t).fd] ELSE fd_array

\* Mutation: the table is copied before the memory is allocated, so what
\* other tasks did meanwhile to descriptor 0 is undone.
resized_StaleCopy(t, ok) ==
  LET new == alloc_fdtable(loc[t].fd)
      kept == [T(t) EXCEPT !.resizing = FALSE]
      grown == [__clear_open_fd(kept, 0) EXCEPT !.max_fds = new, !.fd[0] = NULL]
  IN /\ At(t, "resize")
     /\ IF ok /\ new > loc[t].fd THEN want_fd(t, grown, loc[t], f_count) /\ replace_fdtable(t)
        ELSE put_table(t, kept) /\ no_fd(t, loc[t], f_count) /\ UNCHANGED fd_array
     /\ UNCHANGED tfiles

\* expand_fdtable() has its new table, or not, and copies the current one as
\* it is now; then alloc_fd() starts over and dup3() goes on.
resized(t, ok) ==
  LET new == alloc_fdtable(loc[t].fd)
      kept == [T(t) EXCEPT !.resizing = FALSE]
      grown == [kept EXCEPT !.max_fds = new]
  IN /\ At(t, "resize")
     /\ IF ok /\ new > loc[t].fd THEN want_fd(t, grown, loc[t], f_count) /\ replace_fdtable(t)
        ELSE put_table(t, kept) /\ no_fd(t, loc[t], f_count) /\ UNCHANGED fd_array
     /\ UNCHANGED tfiles

\* wait_event(): nobody is resizing any more.  If the table is still too small
\* for the descriptor, the task resizes it; else it starts over.
resize_waited(t) ==
  /\ At(t, "resize_wait")
  /\ ~T(t).resizing
  /\ IF loc[t].fd >= T(t).max_fds
     THEN put_table(t, [T(t) EXCEPT !.resizing = TRUE]) /\ go(t, "resize", loc[t]) /\ UNCHANGED workVars
     ELSE want_fd(t, T(t), loc[t], f_count)
  /\ UNCHANGED tfiles

\* f is in a table, in the hands of a task or on a list.
Named(f) ==
  \/ \E s \in Structs, i \in Fds : tab[s].fd[i] = f
  \/ \E t \in Tasks : loc[t].file = f
  \/ Waiting(f) # {}

\* A new struct file; if nothing has kept its address, its count is right again.
get_empty_file(f) ==
  /\ alloc_empty_file(f)
  /\ short' = IF Named(f) THEN short ELSE short \ {f}

\* do_filp_open() finds the file, a new one, or fails.
install_open(t, f) ==
  /\ At(t, "install")
  /\ IF f = NULL
     THEN put_table(t, __put_unused_fd(T(t), loc[t].fd)) /\ UNCHANGED <<workVars, short>>
     ELSE put_table(t, [T(t) EXCEPT !.fd[loc[t].fd] = f]) /\ get_empty_file(f)
  /\ done(t)
  /\ UNCHANGED tfiles

\* close_fd(): take the file out of the table and drop it.
close(t, fd) ==
  /\ Calls(t)
  /\ fd < T(t).max_fds /\ T(t).fd[fd] # NULL
  /\ put_table(t, __put_unused_fd([T(t) EXCEPT !.fd[fd] = NULL], fd))
  /\ fput(t, T(t).fd[fd], f_count)
  /\ done(t)
  /\ UNCHANGED tfiles

\* fdget(): a task that is alone with its table takes no reference.
fdget(t, fd) ==
  LET file == T(t).fd[fd]
      path == IF T(t).count = 1 THEN "light" ELSE "counted"
  IN /\ Calls(t)
     /\ file # NULL /\ (path = "counted" => Fgets(t, fd))
     /\ f_count' = IF path = "counted" THEN [f_count EXCEPT ![file] = @ + 1] ELSE f_count
     /\ go(t, "use", [NoLocals EXCEPT !.op = path, !.file = file])
     /\ keepWorks
     /\ UNCHANGED <<tab, tfiles>>

\* fdput() drops a reference, whichever path fdget() took.
fdput(t) ==
  /\ At(t, "use")
  /\ fput(t, loc[t].file, f_count)
  /\ short' = IF loc[t].op = "light" THEN short \cup {loc[t].file} ELSE short
  /\ done(t)
  /\ UNCHANGED <<tab, tfiles>>

----------------------------------------------------------------------------
(* Processes *)

\* copy_process(): a task_struct that is free, with no works.
new_task(t, child, where) ==
  /\ Calls(t) /\ At(child, "none")
  /\ work_exited' = work_exited \ {child}
  /\ pc' = [pc EXCEPT ![child] = where[1], ![t] = where[2]]
  /\ UNCHANGED <<f_count, alloc, task_works, delayed_fput_list, pending, todo>>

\* copy_files() with CLONE_FILES: the child shares the table.
clone_files(t, child) ==
  /\ new_task(t, child, <<"user", "user">>)
  /\ put_table(t, [T(t) EXCEPT !.count = @ + 1])
  /\ tfiles' = [tfiles EXCEPT ![child] = tfiles[t]]
  /\ UNCHANGED loc

\* copy_files() without: dup_fd() into a table of fd2 descriptors.
copy_files(t, child, s) ==
  /\ new_task(t, child, <<"new", "dup_fd">>)
  /\ tab[s].count = 0 /\ \A u \in Tasks : loc[u].files # s
  /\ tab' = [tab EXCEPT ![s] = NewTable]
  /\ loc' = [loc EXCEPT ![t] = [NoLocals EXCEPT !.files = s, !.child = child, !.fd2 = NR_OPEN_DEFAULT]]
  /\ UNCHANGED tfiles

\* The end of fork(), with a table for the child or without.
forked(t, table, where) ==
  /\ tab' = [tab EXCEPT ![loc[t].files] = table]
  /\ tfiles' = [tfiles EXCEPT ![loc[t].child] = IF table = NoTable THEN NULL ELSE loc[t].files]
  /\ pc' = [pc EXCEPT ![loc[t].child] = where, ![t] = "user"]
  /\ loc' = [loc EXCEPT ![t] = NoLocals]

\* Mutation: the copy takes one reference to each file.
dup_fd_OneEach(t) ==
  LET n == count_open_files(T(t))
  IN /\ At(t, "dup_fd") /\ n <= loc[t].fd2
     /\ keepWorks
     /\ f_count' = [f \in Files |-> IF Slots(T(t), f) = {} THEN f_count[f] ELSE f_count[f] + 1]
     /\ forked(t, copy_table(T(t), loc[t].fd2, n), "user")

\* The table to copy fits: get_file() for each of its descriptors.
dup_fd(t) ==
  LET n == count_open_files(T(t))
  IN /\ At(t, "dup_fd") /\ n <= loc[t].fd2
     /\ keepWorks
     /\ f_count' = [f \in Files |-> f_count[f] + Cardinality(Slots(T(t), f))]
     /\ forked(t, copy_table(T(t), loc[t].fd2, n), "user")

\* So does the table, but copy_process() fails later on: exit_files() of the
\* child, by its parent.
dup_fd_bad_fork(t) ==
  LET n == count_open_files(T(t))
  IN /\ At(t, "dup_fd") /\ n <= loc[t].fd2
     /\ keepWorks
     /\ f_count' = [f \in Files |-> f_count[f] + Cardinality(Slots(T(t), f))]
     /\ tab' = [tab EXCEPT ![loc[t].files] = [copy_table(T(t), loc[t].fd2, n) EXCEPT !.count = 0]]
     /\ pc' = [pc EXCEPT ![loc[t].child] = "none", ![t] = "exit_files"]
     /\ loc' = [loc EXCEPT ![t] = [NoLocals EXCEPT !.op = "fork", !.files = loc[t].files]]
     /\ UNCHANGED tfiles

\* It does not, or has grown meanwhile: allocate again, or give up.
dup_fd_again(t, ok) ==
  LET n == count_open_files(T(t))
  IN /\ At(t, "dup_fd") /\ n > loc[t].fd2
     /\ IF ok THEN go(t, "dup_fd", [loc[t] EXCEPT !.fd2 = alloc_fdtable(n - 1)]) /\ UNCHANGED <<tab, tfiles>>
        ELSE forked(t, NoTable, "none")
     /\ UNCHANGED workVars

\* execve(): do_close_on_exec(), on the table as it is, for unshare_fd() is a
\* stub.  A step goes on to the next file that is closed, where the task drops
\* the lock and may lose the CPU.  It keeps its pointer to the fdtable for the
\* rest of the word, even if another task replaces that by a bigger one
\* meanwhile: then it reads the embedded array as it was left, or memory that
\* free_fdtable_rcu() has freed.
Stale(t) == loc[t].set # {} /\ loc[t].fd2 # T(t).max_fds

SlotsRead(t) ==
  IF ~Stale(t) THEN {T(t).fd}
  ELSE IF loc[t].fd2 = NR_OPEN_DEFAULT THEN {fd_array[tfiles[t]]}
  ELSE [Fds -> Files \cup {NULL}]

Marked(marks, slots) == {i \in marks : slots[i] # NULL}

\* The words that the loop has yet to come to.
ToCome(t, i) == At(t, "exec") => Word(i) > Word(loc[t].fd)

\* The next file of the same word.  In a replaced fdtable the slot is emptied
\* in the old one and the descriptor freed in the new one.
close_on_exec_bit(t, slots) ==
  LET fd == Min(Marked(loc[t].set, slots))
  IN /\ Marked(loc[t].set, slots) # {}
     /\ fput(t, slots[fd], f_count)
     /\ go(t, "exec", [loc[t] EXCEPT !.fd = fd, !.set = {i \in @ : i > fd}])
     /\ IF Stale(t)
        THEN /\ put_table(t, __put_unused_fd(T(t), fd))
             /\ fd_array' = IF loc[t].fd2 = NR_OPEN_DEFAULT
                            THEN [fd_array EXCEPT ![tfiles[t]][fd] = NULL] ELSE fd_array
             /\ torn' = TRUE
        ELSE /\ put_table(t, __put_unused_fd([T(t) EXCEPT !.fd[fd] = NULL], fd))
             /\ UNCHANGED <<fd_array, torn>>
     /\ UNCHANGED tfiles

\* There is none: the first one of the words to come.
close_on_exec_word(t, slots) ==
  LET marks == {i \in T(t).cloexec : ToCome(t, i)}
      fd == Min(Marked(marks, T(t).fd))
  IN /\ Marked(loc[t].set, slots) = {} /\ Marked(marks, T(t).fd) # {}
     /\ fput(t, T(t).fd[fd], f_count)
     /\ go(t, "exec", [NoLocals EXCEPT !.fd = fd, !.fd2 = T(t).max_fds,
                                       !.set = {i \in marks : Word(i) = Word(fd) /\ i > fd}])
     /\ put_table(t, __put_unused_fd(
           [T(t) EXCEPT !.fd[fd] = NULL,
                        !.cloexec = {i \in @ : ToCome(t, i) => Word(i) > Word(fd)}], fd))
     /\ UNCHANGED <<tfiles, fd_array, torn>>

\* Nor there: the end of do_close_on_exec().
close_on_exec_end(t, slots) ==
  /\ Marked(loc[t].set, slots) = {}
  /\ Marked({i \in T(t).cloexec : ToCome(t, i)}, T(t).fd) = {}
  /\ put_table(t, [T(t) EXCEPT !.cloexec = {i \in @ : ~ToCome(t, i)}])
  /\ UNCHANGED <<workVars, tfiles, fd_array, torn>>
  /\ done(t)

do_close_on_exec(t) ==
  /\ Calls(t) \/ At(t, "exec")
  /\ \E slots \in SlotsRead(t) :
       close_on_exec_bit(t, slots) \/ close_on_exec_word(t, slots) \/ close_on_exec_end(t, slots)

\* do_exit() up to put_files_struct(): the last one closes the files.
exit_files(t) ==
  /\ Calls(t) /\ t # init
  /\ put_table(t, [T(t) EXCEPT !.count = @ - 1])
  /\ tfiles' = [tfiles EXCEPT ![t] = NULL]
  /\ IF T(t).count = 1 THEN go(t, "exit_files", [NoLocals EXCEPT !.files = tfiles[t]])
     ELSE go(t, "exit_run", NoLocals)
  /\ UNCHANGED workVars

\* One turn of close_files(), of a table that nobody else sees, or its end.
close_files(t) ==
  LET a == loc[t].files
      taken == {i \in tab[a].open : tab[a].fd[i] # NULL}
      fd == Min(taken)
  IN /\ At(t, "exit_files")
     /\ IF taken = {}
        THEN /\ tab' = [tab EXCEPT ![a] = NoTable]
             /\ UNCHANGED workVars
             /\ IF loc[t].op = "fork" THEN done(t) ELSE go(t, "exit_run", NoLocals)
        ELSE /\ tab' = [tab EXCEPT ![a].fd[fd] = NULL]
             /\ fput(t, tab[a].fd[fd], f_count)
             /\ UNCHANGED <<pc, loc>>
     /\ UNCHANGED tfiles

----------------------------------------------------------------------------
(* Deferred work *)

\* The end of exit_task_work(), when there are no works left.
exit_task_work(t) ==
  /\ At(t, "exit_run")
  /\ close_task_works(t)
  /\ pc' = [pc EXCEPT ![t] = "none"]
  /\ UNCHANGED <<tab, tfiles, loc>>

\* A task that goes back to user mode (resume_user_mode_work()) or exits runs
\* its works, one by one.
task_work_run(t) ==
  /\ pc[t] \in {"leave", "exit_run"}
  /\ __fput(t)
  /\ pc' = [pc EXCEPT ![t] = IF @ = "leave" /\ todo'[t] = <<>> THEN "user" ELSE @]
  /\ UNCHANGED <<tab, tfiles, loc>>

\* A kernel thread opens a file without a descriptor, and drops it.
kthread_open(t, f) ==
  /\ t \in KThreads /\ At(t, "user")
  /\ get_empty_file(f)
  /\ go(t, "use", [NoLocals EXCEPT !.op = "counted", !.file = f])
  /\ UNCHANGED <<tab, tfiles>>

----------------------------------------------------------------------------

Descriptor(t) ==
  \/ open(t)
  \/ Calls(t) /\ \E fd \in Fds : dup(t, fd) \/ close(t, fd) \/ fdget(t, fd)
  \/ Calls(t) /\ \E fd, fd2 \in Fds : dup2(t, fd, fd2)
  \/ resize_waited(t)

Process(t) ==
  \/ (\E c \in Tasks : clone_files(t, c) \/ \E s \in Structs : copy_files(t, c, s))
  \/ dup_fd(t) \/ dup_fd_bad_fork(t) \/ (\E ok \in BOOLEAN : dup_fd_again(t, ok))
  \/ exit_files(t) \/ close_files(t) \/ exit_task_work(t)
  \/ task_work_run(t)

\* The steps that begin or end the use of a file, and so may change short.
Use(t) ==
  \/ (\E f \in Files \cup {NULL} : install_open(t, f))
  \/ (\E f \in Files : kthread_open(t, f))
  \/ fdput(t)

Next ==
  \E t \in Tasks :
    \/ (Descriptor(t) \/ Process(t)) /\ UNCHANGED <<fd_array, short, torn>>
    \/ Use(t) /\ UNCHANGED <<fd_array, torn>>
    \/ (\E ok \in BOOLEAN : resized(t, ok)) /\ UNCHANGED <<short, torn>>
    \/ do_close_on_exec(t) /\ UNCHANGED short

Spec == Init /\ [][Next]_vars

----------------------------------------------------------------------------
(* Properties *)

\* The references to f that tasks hold in their hands.
InHand(f) == {t \in Tasks : loc[t].file = f /\ loc[t].op # "light"}

\* Every reference is counted and no other: f_count is the number of
\* descriptors, in all tables, and of tasks that hold the file.  So a file is
\* closed neither early nor never, whoever forks, shares, dups, execs or exits.
\* The exceptions are the files of which fdput() dropped a reference that the
\* light path of fdget() had not taken, and what follows when an exec closes a
\* descriptor of a replaced fdtable.
RefExact ==
  ~torn =>
    \A f \in Files \ short :
      f_count[f] = Cardinality(InHand(f)) + Cardinality({p \in Structs \X Fds : tab[p[1]].fd[p[2]] = f})

\* The tasks that are about to install a file in descriptor i of table s.
Installing(s, i) == {t \in Tasks : At(t, "install") /\ tfiles[t] = s /\ loc[t].fd = i}

\* The parts of a table agree while tasks that share it open, close, resize
\* and exec, as long as no exec closes a descriptor of a replaced fdtable: a
\* descriptor is taken if and only if it holds a file or is promised to exactly
\* one task, which will find the slot empty; next_fd and the full words, which
\* the search relies on, hide no free descriptor; at most one task resizes.
TableConsistent ==
  \A s \in Structs : ~torn /\ tab[s].count > 0 =>
    /\ tab[s].open \subseteq 0 .. tab[s].max_fds - 1
    /\ \A i \in Fds : Cardinality(Installing(s, i)) + (IF tab[s].fd[i] = NULL THEN 0 ELSE 1)
                       = IF i \in tab[s].open THEN 1 ELSE 0
    /\ 0 .. tab[s].next_fd - 1 \subseteq tab[s].open
    /\ \A i \in Fds : Word(i) \in tab[s].full => i \in tab[s].open
    /\ Cardinality({t \in Tasks : tfiles[t] = s /\ At(t, "resize")}) = IF tab[s].resizing THEN 1 ELSE 0

\* No file is left behind or closed twice.  One that is allocated has
\* references, or it waits on exactly one list, once, to be closed, and a file
\* that is free waits on none.  The list is that of a task that lives and will
\* come to it: tasks that are gone have none, and delayed_fput_list, which
\* nobody comes to once its work has been queued, stays empty as long as there
\* is one kernel thread.
NoFileLeft ==
  ~torn =>
    /\ \A f \in Files \ short :
         /\ Cardinality(Waiting(f)) = IF f \in alloc /\ f_count[f] = 0 THEN 1 ELSE 0
         /\ f \notin alloc => f_count[f] = 0
    /\ \A t \in Tasks : pc[t] \in {"none", "new"} => task_works[t] = <<>> /\ todo[t] = <<>>
    /\ (\A t, u \in KThreads : t = u) => delayed_fput_list = <<>>

\* A descriptor that is open holds a file with references: filp_close() never
\* has to say "VFS: Close: file count is 0".
CloseFindsCount == \A s \in Structs, i \in Fds : tab[s].fd[i] \in Files => f_count[tab[s].fd[i]] > 0

\* A descriptor that is free has an empty slot: alloc_fd() never has to say
\* "alloc_fd: slot %d not NULL!".
AllocFindsEmptySlot ==
  \A s \in Structs, i \in Fds : tab[s].count > 0 /\ tab[s].fd[i] # NULL => i \in tab[s].open

=============================================================================
