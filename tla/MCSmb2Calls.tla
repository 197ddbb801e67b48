---------------------------- MODULE MCSmb2Calls ----------------------------
(***************************************************************************)
(* Each call on its own, synchronous and not; a file read and sought       *)
(* through; two calls at the same time.                                    *)
(***************************************************************************)
EXTENDS Smb2Calls

One(kind, sync) ==
  [kind |-> kind, sync |-> sync, flags |-> {"O_RDWR"}, count |-> 65537, credits |-> 3]
Open(flags) == [One("open", TRUE) EXCEPT !.flags = flags]
Read(count, credits) == [One("read", TRUE) EXCEPT !.count = count, !.credits = credits]

Alone == {"opendir", "echo", "mkdir", "unlink", "stat", "truncate", "rename", "readlink", "disconnect"}
OnFile == {"close", "fsync", "fstat", "ftruncate", "read", "write"}

MCPlans ==
  {<<One(k, s)>> : k \in Alone \cup {"open"}, s \in BOOLEAN}
    \cup {<<One("open", s), One(k, s)>> : k \in OnFile, s \in BOOLEAN}
    \cup {<<Open({mode} \cup more)>> : mode \in {"O_RDONLY", "O_WRONLY", "O_RDWR"},
                                      more \in SUBSET {"O_CREAT", "O_EXCL", "O_TRUNC"}}
    \cup {<<Open({"O_RDWR"}), Read(c, n)>> : c \in {0, 1, 65536, 65537, 300000},
                                            n \in {0, 1, 3}}
    \cup {<<One("open", TRUE), One("read", TRUE), One("lseek", TRUE), One("read", TRUE)>>,
          <<One("open", TRUE), One("read", TRUE), One("read", TRUE)>>,
          <<One("open", TRUE), One("write", TRUE), One("read", TRUE)>>,
          <<One("stat", FALSE), One("mkdir", TRUE)>>,
          <<One("truncate", FALSE), One("unlink", TRUE)>>,
          <<One("opendir", FALSE), One("opendir", TRUE)>>,
          <<One("open", TRUE), One("read", FALSE), One("close", TRUE)>>}

MCMishaps == {"memory", "timeout", "break", "destroy"}
=============================================================================
