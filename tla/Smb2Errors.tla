----------------------------- MODULE Smb2Errors -----------------------------
(***************************************************************************)
(* lib/errors.c: the errno an NT status becomes before an application      *)
(* sees it.  Several statuses become one errno, and two become "0".        *)
(***************************************************************************)

\* A callback is given minus this.  SHUTDOWN, 0xffffffff, becomes -(-1), which is
\* also EPERM.  What the table does not name is an I/O error.
nterror_to_errno(status) ==
  CASE status \in {"SUCCESS", "END_OF_FILE"} -> "0"
    [] status \in {"PENDING", "MORE_PROCESSING_REQUIRED"} -> "EAGAIN"
    [] status \in {"NO_SUCH_FILE", "NO_SUCH_DEVICE", "BAD_NETWORK_NAME",
                   "OBJECT_NAME_NOT_FOUND", "OBJECT_PATH_INVALID", "OBJECT_PATH_NOT_FOUND",
                   "OBJECT_PATH_SYNTAX_BAD", "DFS_EXIT_PATH_FOUND", "DELETE_PENDING",
                   "REDIRECTOR_NOT_STARTED", "NOT_FOUND"} -> "ENOENT"
    [] status \in {"SMB_BAD_FID", "INVALID_HANDLE", "OBJECT_TYPE_MISMATCH",
                   "PORT_DISCONNECTED", "INVALID_PORT_HANDLE", "HANDLE_NOT_CLOSABLE"} -> "EBADF"
    [] status \in {"ACCESS_DENIED", "NETWORK_ACCESS_DENIED", "ACCOUNT_RESTRICTION",
                   "INVALID_LOGON_HOURS", "PASSWORD_EXPIRED", "ACCOUNT_DISABLED"} -> "EACCES"
    [] status \in {"SHUTDOWN", "INVALID_LOCK_SEQUENCE", "INVALID_VIEW_SIZE", "ALREADY_COMMITTED",
                   "PORT_CONNECTION_REFUSED", "THREAD_IS_TERMINATING", "PRIVILEGE_NOT_HELD",
                   "FILE_IS_A_DIRECTORY", "FILE_RENAMED", "PROCESS_IS_TERMINATING",
                   "CANNOT_DELETE", "FILE_DELETED"} -> "EPERM"
    [] status = "DIRECTORY_NOT_EMPTY" -> "ENOTEMPTY"
    [] status = "NO_MORE_FILES" -> "ENODATA"
    [] status = "LOGON_FAILURE" -> "ECONNREFUSED"
    [] status = "NOT_A_DIRECTORY" -> "ENOTDIR"
    [] status \in {"NOT_IMPLEMENTED", "INVALID_DEVICE_REQUEST", "ILLEGAL_FUNCTION",
                   "INVALID_PARAMETER", "NOT_SUPPORTED", "NOT_A_REPARSE_POINT"} -> "EINVAL"
    [] status = "STOPPED_ON_SYMLINK" -> "ENOLINK"
    [] status = "TOO_MANY_OPENED_FILES" -> "EMFILE"
    [] status \in {"SECTION_TOO_BIG", "TOO_MANY_PAGING_FILES", "INSUFF_SERVER_RESOURCES"} -> "ENOMEM"
    [] status = "NOT_SAME_DEVICE" -> "EXDEV"
    [] status = "SHARING_VIOLATION" -> "ETXTBSY"
    [] status \in {"FILE_LOCK_CONFLICT", "LOCK_NOT_GRANTED"} -> "EDEADLK"
    [] status = "OBJECT_NAME_COLLISION" -> "EEXIST"
    [] status = "PIPE_DISCONNECTED" -> "EPIPE"
    [] status = "MEDIA_WRITE_PROTECTED" -> "EROFS"
    [] status = "NO_MEDIA_IN_DEVICE" -> "ENODEV"
    [] status = "DISK_FULL" -> "ENOSPC"
    [] status = "PATH_NOT_COVERED" -> "ENOEXEC"
    [] status \in {"CANCELLED", "FILE_CLOSED", "VOLUME_DISMOUNTED", "CONNECTION_DISCONNECTED",
                   "CONNECTION_RESET", "CONNECTION_INVALID", "CONNECTION_ABORTED",
                   "NETWORK_NAME_DELETED", "INVALID_NETWORK_RESPONSE"} -> "ENETRESET"
    [] status = "IO_TIMEOUT" -> "ETIMEDOUT"
    [] status = "INSUFFICIENT_RESOURCES" -> "EBUSY"
    [] OTHER -> "EIO"

\* In the callbacks of the synchronous calls: `status == SMB2_STATUS_SHUTDOWN`
\* compares the errno they are given, as unsigned, with 0xffffffff.
IsShutdown(errno) == errno = "EPERM"
=============================================================================
