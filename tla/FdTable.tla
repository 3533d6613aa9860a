------------------------------ MODULE FdTable ------------------------------
(***************************************************************************)
(* The file descriptor table of fs/file.c as a value: struct files_struct  *)
(* with its struct fdtable, and the functions that change it under         *)
(* files->file_lock.  A table is a record                                  *)
(*   count     files->count, the tasks that share it; 0: not allocated     *)
(*   max_fds   fdt->max_fds                                                *)
(*   fd        fdt->fd, a file or NULL for each descriptor                 *)
(*   open      fdt->open_fds, the descriptors that are taken               *)
(*   full      fdt->full_fds_bits, the words of open_fds with no zero bit  *)
(*   cloexec   fdt->close_on_exec                                          *)
(*   next_fd   files->next_fd, where the search for a free one begins      *)
(*   resizing  files->resize_in_progress                                   *)
(***************************************************************************)
EXTENDS Naturals, FiniteSets, FiniteSetsExt

CONSTANTS
  Files,           \* the struct file's
  NULL,
  BITS_PER_LONG,   \* descriptors in a word of the bitmaps
  sysctl_nr_open,  \* no table grows beyond it
  NOFILE           \* RLIMIT_NOFILE

\* RLIMIT_NOFILE is INR_OPEN_CUR, 1024, and setrlimit() is a stub.
ASSUME TableAssumption ==
  /\ NULL \notin Files
  /\ {BITS_PER_LONG, sysctl_nr_open, NOFILE} \subseteq Nat \ {0}
  /\ NOFILE <= sysctl_nr_open

Fds == 0 .. sysctl_nr_open - 1

NR_OPEN_DEFAULT == BITS_PER_LONG

Word(fd) == fd \div BITS_PER_LONG

InWord(w) == {i \in Fds : Word(i) = w}

NewTable ==
  [count |-> 1, max_fds |-> NR_OPEN_DEFAULT, fd |-> [i \in Fds |-> NULL], open |-> {},
   full |-> {}, cloexec |-> {}, next_fd |-> 0, resizing |-> FALSE]

NoTable == [NewTable EXCEPT !.count = 0]

\* A table that is big enough for descriptor nr: the size is rounded up to a
\* power of two (here, of words) and cut down to sysctl_nr_open.
alloc_fdtable(nr) ==
  LET sizes == {BITS_PER_LONG * 2^k : k \in 0 .. nr}
      size == Min({s \in sizes : s > nr})
  IN IF size > sysctl_nr_open THEN ((sysctl_nr_open - 1) \div BITS_PER_LONG + 1) * BITS_PER_LONG ELSE size

__set_open_fd(T, fd) ==
  [T EXCEPT !.open = @ \cup {fd},
            !.full = IF InWord(Word(fd)) \subseteq T.open \cup {fd} THEN @ \cup {Word(fd)} ELSE @]

__clear_open_fd(T, fd) == [T EXCEPT !.open = @ \ {fd}, !.full = @ \ {Word(fd)}]

__set_close_on_exec(T, fd, on) ==
  [T EXCEPT !.cloexec = IF on THEN @ \cup {fd} ELSE @ \ {fd}]

__put_unused_fd(T, fd) ==
  [__clear_open_fd(T, fd) EXCEPT !.next_fd = IF fd < @ THEN fd ELSE @]

\* find_next_zero_bit(): the first of from .. limit - 1 outside of bits, or
\* limit.
FirstZero(bits, from, limit) == Min({limit} \cup {i \in from .. limit - 1 : i \notin bits})

\* The first free descriptor from start on: skip full words, then look at
\* single bits.
find_next_fd(T, start) ==
  LET bitbit == FirstZero(T.full, Word(start), Word(T.max_fds)) * BITS_PER_LONG
  IN IF bitbit > T.max_fds THEN T.max_fds
     ELSE FirstZero(T.open, IF bitbit > start THEN bitbit ELSE start, T.max_fds)

\* The descriptor that alloc_fd() tries, with start = 0.
candidate(T) == IF T.next_fd < T.max_fds THEN find_next_fd(T, T.next_fd) ELSE T.next_fd

\* What expand_files(files, nr) comes to: nothing to do, an error, a wait
\* for another task that is resizing, or an expansion.
expand_files(T, nr) ==
  IF nr < T.max_fds THEN "fits"
  ELSE IF nr >= sysctl_nr_open THEN "EMFILE"
  ELSE IF T.resizing THEN "wait" ELSE "expand"

\* alloc_fd() when descriptor fd fits; its slot should be empty, and is made so.
take_fd(T, fd, cloexec) ==
  __set_close_on_exec(__set_open_fd([T EXCEPT !.next_fd = fd + 1, !.fd[fd] = NULL], fd), fd, cloexec)

\* sane_fdtable_size(): up to the last word with a descriptor that is taken.
count_open_files(T) ==
  (Max({0} \cup {Word(i) : i \in T.open}) + 1) * BITS_PER_LONG

\* The copy that dup_fd() makes of T's first n descriptors.  One that is
\* taken by an open() in progress, with no file yet, is free in the copy.
copy_table(T, max, n) ==
  LET reserved == {i \in T.open : T.fd[i] = NULL}
  IN [NewTable EXCEPT
        !.max_fds = max,
        !.fd = [i \in Fds |-> IF i < n THEN T.fd[i] ELSE NULL],
        !.open = {i \in T.open : i < n /\ i \notin reserved},
        !.full = {w \in T.full : w < Word(n) /\ \A i \in reserved : Word(i) # w},
        !.cloexec = {i \in T.cloexec : i < n}]

\* The files of a table, and the descriptors that hold f.
Slots(T, f) == {i \in Fds : T.fd[i] = f}

=============================================================================
