------------------------------ MODULE TaskWork ------------------------------
(***************************************************************************)
(* What becomes of a struct file whose last reference is dropped:          *)
(* kernel/task_work.c, fput() and delayed_fput() of fs/file_table.c, and   *)
(* the workqueue of this kernel, kernel/workqueue.c, which has no worker   *)
(* threads: queue_work_on() calls the function of the work itself.         *)
(*                                                                         *)
(* A task closes its files when it goes back to user mode; a kernel thread *)
(* never does, so its fput() goes through delayed_fput_list.  ->release()  *)
(* of a file may sleep, so other tasks run between two calls of __fput().  *)
(***************************************************************************)
EXTENDS Naturals, Sequences

CONSTANTS
  Tasks,       \* the task_structs
  KThreads     \* those with PF_KTHREAD

ASSUME KThreadAssumption == KThreads \subseteq Tasks

VARIABLES
  alloc,              \* the struct file's that are allocated
  f_count,            \* file->f_count
  task_works,         \* task->task_works, the last one added first
  work_exited,        \* the tasks whose task_works is &work_exited
  delayed_fput_list,  \* the llist, the last one added first
  pending,            \* WORK_STRUCT_PENDING_BIT of delayed_fput_work
  todo                \* the files that a task has yet to __fput(), in its loop

workVars == <<alloc, f_count, task_works, work_exited, delayed_fput_list, pending, todo>>

\* task_work_add() succeeds until the task has run its works for the last
\* time.
CanAddWork(t) == t \notin KThreads /\ t \notin work_exited

\* queue_work_on(): a work that is pending already is not queued again.
schedule_delayed_work(t, list) ==
  IF pending
  THEN delayed_fput_list' = list /\ UNCHANGED <<pending, todo>>
  ELSE /\ pending' = TRUE
       /\ delayed_fput_list' = <<>>
       /\ todo' = [todo EXCEPT ![t] = list]

\* alloc_empty_file(): a file with one reference.
alloc_empty_file(f) ==
  /\ f \notin alloc
  /\ alloc' = alloc \cup {f}
  /\ f_count' = [f_count EXCEPT ![f] = 1]
  /\ UNCHANGED <<task_works, work_exited, delayed_fput_list, pending, todo>>

\* fput() of the last reference: task_work_add(), or the list that only the
\* one who finds it empty schedules the work for.
fput_zero(t, f) ==
  IF CanAddWork(t)
  THEN /\ task_works' = [task_works EXCEPT ![t] = <<f>> \o @]
       /\ UNCHANGED <<delayed_fput_list, pending, todo>>
  ELSE /\ UNCHANGED task_works
       /\ IF delayed_fput_list = <<>>
          THEN schedule_delayed_work(t, <<f>>)
          ELSE delayed_fput_list' = <<f>> \o delayed_fput_list /\ UNCHANGED <<pending, todo>>

\* fput() by task t, where refs are the counts with the references that its
\* caller has just taken.  The count is a long that wraps below zero; the
\* model stops it there.
fput(t, f, refs) ==
  /\ f_count' = [refs EXCEPT ![f] = IF @ = 0 THEN 0 ELSE @ - 1]
  /\ IF refs[f] = 1 THEN fput_zero(t, f)
     ELSE UNCHANGED <<task_works, delayed_fput_list, pending, todo>>
  /\ UNCHANGED <<work_exited, alloc>>

\* Mutation: the work stays pending when its function has returned.
__fput_StaysPending(t) ==
  LET detached == todo[t] # <<>>
      list == IF detached THEN todo[t] ELSE task_works[t]
  IN /\ list # <<>>
     /\ alloc' = alloc \ {Head(list)}
     /\ todo' = [todo EXCEPT ![t] = Tail(list)]
     /\ task_works' = IF detached THEN task_works ELSE [task_works EXCEPT ![t] = <<>>]
     /\ UNCHANGED <<f_count, work_exited, delayed_fput_list, pending>>

\* A turn of the loop of task_work_run() or of delayed_fput(): ____fput() of
\* the next file of the list the task has detached, which it does when the one
\* before is through, and file_free().  The last turn of delayed_fput() ends
\* queue_work_on().
__fput(t) ==
  LET detached == todo[t] # <<>>
      list == IF detached THEN todo[t] ELSE task_works[t]
  IN /\ list # <<>>
     /\ alloc' = alloc \ {Head(list)}
     /\ todo' = [todo EXCEPT ![t] = Tail(list)]
     /\ task_works' = IF detached THEN task_works ELSE [task_works EXCEPT ![t] = <<>>]
     /\ pending' = IF detached /\ ~CanAddWork(t) /\ Len(list) = 1 THEN FALSE ELSE pending
     /\ UNCHANGED <<f_count, work_exited, delayed_fput_list>>

\* The end of task_work_run() in a task that exits: the list is closed.
close_task_works(t) ==
  /\ todo[t] = <<>> /\ task_works[t] = <<>>
  /\ work_exited' = work_exited \cup {t}
  /\ UNCHANGED <<alloc, f_count, task_works, delayed_fput_list, pending, todo>>

\* The lists of files that wait for their __fput(), and where f is on them.
Lists == ({"task_works", "todo"} \X Tasks) \cup {<<"delayed_fput_list", "work">>}

Queue ==
  [c \in Lists |-> CASE c[1] = "task_works" -> task_works[c[2]]
                     [] c[1] = "todo" -> todo[c[2]]
                     [] OTHER -> delayed_fput_list]

Waiting(f) ==
  LET q == Queue IN UNION {{<<c, i>> : i \in {j \in DOMAIN q[c] : q[c][j] = f}} : c \in Lists}

=============================================================================
