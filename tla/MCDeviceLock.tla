---------------------------- MODULE MCDeviceLock ----------------------------
(* A CLI process with one thread and a web process with a worker thread and *)
(* a thread that serves the status page.                                    *)
EXTENDS DeviceLock

CONSTANTS cli, worker, page

MCThreads == {cli, worker, page}
MCProbes == {page}
MCProcesses == {{cli}, {worker, page}}
=============================================================================
