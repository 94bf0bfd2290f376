-------------------------------- MODULE PyFd -----------------------------------
(***************************************************************************)
(* The Python class tinyproto.Fd (python/fd.cpp).  Every method starts    *)
(* with the interpreter lock (GIL).  Some give it up while they are in the *)
(* library, the others keep it; the library takes frames.mutex and unlocks *)
(* it around callbacks, and each callback takes the GIL and runs Python    *)
(* code, in which the interpreter may switch to another thread.  end() is  *)
(* called when no other call is in the library: nothing in the class makes *)
(* sure of that.                                                           *)
(***************************************************************************)
EXTENDS Naturals, Sequences, FiniteSets

CONSTANTS
    PyThreads,      \* Python threads
    PyScenarios,    \* the methods each thread calls: functions of PyThreads
    PyMaxTurns,     \* bound on the callbacks and thread switches inside one call
    PyMaxCalls      \* bound on the calls of a thread

ASSUME PyAssumption == PyMaxTurns \in Nat /\ PyMaxCalls \in Nat

PyNobody == "nobody"

(* Methods with Py_BEGIN_ALLOW_THREADS around the library. *)
PyAllowsThreads(m) == m \in {"send", "send_to", "disconnect", "run_rx", "run_tx"}

(* Methods that hand a Python function to the library. *)
PyRuns(m) == m \in {"run_rx", "run_tx"}

VARIABLES
    pyRoles,    \* the scenario
    pyGil,      \* the thread that holds the interpreter lock
    pyMutex,    \* the thread that holds frames.mutex
    pyPc,       \* where each thread is
    pyMethod,   \* the method it is in
    pyLeft,     \* callbacks and switches left to this call
    pyCalls,    \* calls made
    pyFunc,     \* read_func, write_func: whose function, or NULL
    pyError,    \* error_flag
    pyBad,      \* a function given to this call returned a wrong type
    pyRaised    \* the last call raised RuntimeError

pyVars == <<pyRoles, pyGil, pyMutex, pyPc, pyMethod, pyLeft, pyCalls, pyFunc, pyError, pyBad,
            pyRaised>>

PyInit ==
    /\ pyRoles \in PyScenarios
    /\ pyGil = PyNobody /\ pyMutex = PyNobody
    /\ pyPc = [t \in PyThreads |-> "idle"]
    /\ pyMethod = [t \in PyThreads |-> "none"]
    /\ pyLeft = [t \in PyThreads |-> 0]
    /\ pyCalls = [t \in PyThreads |-> 0]
    /\ pyFunc = [m \in {"run_rx", "run_tx"} |-> PyNobody]
    /\ pyError = FALSE
    /\ pyBad = [t \in PyThreads |-> FALSE]
    /\ pyRaised = [t \in PyThreads |-> FALSE]

PyGoto(t, pc) == pyPc' = [pyPc EXCEPT ![t] = pc]

(* PyGILState_Ensure, Py_END_ALLOW_THREADS, or a thread that keeps it. *)
PyTakeGil(t) == pyGil \in {PyNobody, t} /\ pyGil' = t

(***************************************************************************)
(* One call of a method of Fd.                                             *)
(***************************************************************************)

(* Mutant: every call starts with a clean error_flag. *)
PyErrorCleared == FALSE

(* error_flag is only cleared by __init__. *)
PyErrorOnEntry == pyError

(* The thread has the GIL and calls m.  tiny_fd_run_rx reads first. *)
PyCall(t, m) ==
    /\ pyPc[t] = "idle" /\ pyCalls[t] < PyMaxCalls
    /\ pyGil = PyNobody
    /\ PyGoto(t, IF m = "run_rx" THEN "func" ELSE "lib")
    /\ pyGil' = IF PyAllowsThreads(m) THEN PyNobody ELSE t
    /\ pyMethod' = [pyMethod EXCEPT ![t] = m]
    /\ pyLeft' = [pyLeft EXCEPT ![t] = PyMaxTurns]
    /\ pyCalls' = [pyCalls EXCEPT ![t] = @ + 1]
    /\ pyFunc' = IF PyRuns(m) THEN [pyFunc EXCEPT ![m] = t] ELSE pyFunc
    /\ pyError' = PyErrorOnEntry
    /\ pyBad' = [pyBad EXCEPT ![t] = FALSE]
    /\ pyRaised' = [pyRaised EXCEPT ![t] = FALSE]
    /\ UNCHANGED <<pyRoles, pyMutex>>

(* The library wants frames.mutex. *)
PyLock(t) ==
    /\ pyPc[t] = "lib" /\ pyMutex = PyNobody
    /\ pyMutex' = t
    /\ PyGoto(t, "locked")
    /\ UNCHANGED <<pyRoles, pyGil, pyMethod, pyLeft, pyCalls, pyFunc, pyError, pyBad, pyRaised>>

(* Mutant: the mutex stays locked during a callback. *)
PyMutexInCallbackKept(t) == pyMutex

(* tiny_mutex_unlock before on_read_cb, on_send_cb, on_connect_event_cb. *)
PyMutexInCallback(t) == PyNobody

PyToCallback(t) ==
    /\ pyPc[t] = "locked" /\ pyLeft[t] > 0
    /\ pyMutex' = PyMutexInCallback(t)
    /\ pyLeft' = [pyLeft EXCEPT ![t] = @ - 1]
    /\ PyGoto(t, "ensure")
    /\ UNCHANGED <<pyRoles, pyGil, pyMethod, pyCalls, pyFunc, pyError, pyBad, pyRaised>>

PyUnlock(t) ==
    /\ pyPc[t] = "locked"
    /\ pyMutex' = PyNobody
    /\ \/ PyGoto(t, "leave") /\ UNCHANGED pyLeft
       \/ PyGoto(t, "lib") /\ pyLeft[t] > 0 /\ pyLeft' = [pyLeft EXCEPT ![t] = @ - 1]
    /\ UNCHANGED <<pyRoles, pyGil, pyMethod, pyCalls, pyFunc, pyError, pyBad, pyRaised>>

(* tiny_fd_get_tx_data has produced bytes for write_func. *)
PyGenerated(t) ==
    /\ pyPc[t] = "lib" /\ pyMethod[t] = "run_tx"
    /\ PyGoto(t, "func")
    /\ UNCHANGED <<pyRoles, pyGil, pyMutex, pyMethod, pyLeft, pyCalls, pyFunc, pyError, pyBad, pyRaised>>

(* read_func and write_func look at the pointer before they take the GIL.  *)
(* When it is NULL they return 0: tiny_fd_run_rx returns, and              *)
(* tiny_fd_run_tx calls write_func again with the same bytes, for as long  *)
(* as the pointer is NULL.                                                 *)
PyToFunction(t) ==
    /\ pyPc[t] = "func"
    /\ \/ pyFunc[pyMethod[t]] # PyNobody /\ PyGoto(t, "ensure_func")
       \/ pyFunc[pyMethod[t]] = PyNobody /\ pyMethod[t] = "run_rx" /\ PyGoto(t, "leave")
    /\ UNCHANGED <<pyRoles, pyGil, pyMutex, pyMethod, pyLeft, pyCalls, pyFunc, pyError, pyBad, pyRaised>>

PyEnsure(t) ==
    /\ PyTakeGil(t)
    /\ \/ pyPc[t] = "ensure" /\ PyGoto(t, "python")
       \/ pyPc[t] = "ensure_func" /\ PyGoto(t, "call_func")
       \/ pyPc[t] = "resume_func" /\ PyGoto(t, "python_func")
    /\ UNCHANGED <<pyRoles, pyMutex, pyMethod, pyLeft, pyCalls, pyFunc, pyError, pyBad, pyRaised>>

(* The interpreter gives the GIL to another thread for a while. *)
PySwitch(t) ==
    /\ pyPc[t] \in {"python", "python_func"} /\ pyGil = t /\ pyLeft[t] > 0
    /\ pyGil' = PyNobody
    /\ pyLeft' = [pyLeft EXCEPT ![t] = @ - 1]
    /\ PyGoto(t, IF pyPc[t] = "python" THEN "ensure" ELSE "resume_func")
    /\ UNCHANGED <<pyRoles, pyMutex, pyMethod, pyCalls, pyFunc, pyError, pyBad, pyRaised>>

(* PyGILState_Release restores what was held before. *)
PyReleaseGil(t) == pyGil' = IF PyAllowsThreads(pyMethod[t]) THEN PyNobody ELSE t

(* PyObject_CallFunctionObjArgs reads the pointer again. *)
PyInvoke(t) ==
    /\ pyPc[t] = "call_func" /\ pyFunc[pyMethod[t]] # PyNobody
    /\ PyGoto(t, "python_func")
    /\ UNCHANGED <<pyRoles, pyGil, pyMutex, pyMethod, pyLeft, pyCalls, pyFunc, pyError, pyBad, pyRaised>>

(* Another call has set it to NULL in between: that fails like a function  *)
(* that returns a wrong type.                                              *)
PyInvokeNull(t) ==
    /\ pyPc[t] = "call_func" /\ pyFunc[pyMethod[t]] = PyNobody
    /\ PyReleaseGil(t)
    /\ PyGoto(t, "leave")
    /\ pyError' = TRUE
    /\ UNCHANGED <<pyRoles, pyMutex, pyMethod, pyLeft, pyCalls, pyFunc, pyBad, pyRaised>>

PyBack(t) ==
    /\ pyPc[t] = "python" /\ pyGil = t
    /\ PyReleaseGil(t)
    /\ PyGoto(t, "lib")
    /\ UNCHANGED <<pyRoles, pyMutex, pyMethod, pyLeft, pyCalls, pyFunc, pyError, pyBad, pyRaised>>

(* The function returns: nothing read or everything written; bytes for the *)
(* parser; some bytes not written yet.                                     *)
PyFunctionBack(t) ==
    /\ pyPc[t] = "python_func" /\ pyGil = t
    /\ PyReleaseGil(t)
    /\ \/ PyGoto(t, "leave") /\ UNCHANGED pyLeft
       \/ pyMethod[t] = "run_rx" /\ PyGoto(t, "lib") /\ UNCHANGED pyLeft
       \/ /\ pyMethod[t] = "run_tx" /\ pyLeft[t] > 0
          /\ pyLeft' = [pyLeft EXCEPT ![t] = @ - 1]
          /\ PyGoto(t, "func")
    /\ UNCHANGED <<pyRoles, pyMutex, pyMethod, pyCalls, pyFunc, pyError, pyBad, pyRaised>>

(* It raises, or returns something else than a number or a buffer. *)
PyFunctionBad(t) ==
    /\ pyPc[t] = "python_func" /\ pyGil = t
    /\ PyReleaseGil(t)
    /\ PyGoto(t, "leave")
    /\ pyError' = TRUE
    /\ pyBad' = [pyBad EXCEPT ![t] = TRUE]
    /\ UNCHANGED <<pyRoles, pyMutex, pyMethod, pyLeft, pyCalls, pyFunc, pyRaised>>

(* The method gets the GIL back and returns, or raises on error_flag. *)
PyReturn(t) ==
    /\ pyPc[t] = "leave"
    /\ pyGil \in {PyNobody, t} /\ pyGil' = PyNobody
    /\ PyGoto(t, "idle")
    /\ pyFunc' = IF PyRuns(pyMethod[t]) THEN [pyFunc EXCEPT ![pyMethod[t]] = PyNobody] ELSE pyFunc
    /\ pyRaised' = [pyRaised EXCEPT ![t] = PyRuns(pyMethod[t]) /\ pyError]
    /\ UNCHANGED <<pyRoles, pyMutex, pyMethod, pyLeft, pyCalls, pyError, pyBad>>

PyStep(t) ==
    \/ PyLock(t) \/ PyToCallback(t) \/ PyUnlock(t) \/ PyGenerated(t) \/ PyToFunction(t)
    \/ PyEnsure(t) \/ PySwitch(t) \/ PyInvoke(t) \/ PyInvokeNull(t) \/ PyBack(t)
    \/ PyFunctionBack(t) \/ PyFunctionBad(t) \/ PyReturn(t)

PyNext ==
    \E t \in PyThreads : PyStep(t) \/ \E m \in pyRoles[t] : PyCall(t, m)

(* Threads run and Python functions return; the interpreter passes the GIL *)
(* on to the threads that ask for it, and the mutex is not kept from a     *)
(* thread for ever.                                                        *)
PyFairness == \A t \in PyThreads : SF_pyVars(PyStep(t))

PySpec == PyInit /\ [][PyNext]_pyVars /\ PyFairness

(***************************************************************************)
(* Properties.                                                             *)
(***************************************************************************)

(* write_func is NULL for a call that still has bytes to write.  Only a    *)
(* run_tx of another thread can have done that.                            *)
PySpins(t) == pyPc[t] = "func" /\ pyMethod[t] = "run_tx" /\ pyFunc["run_tx"] = PyNobody
PyShared == \E t, u \in PyThreads : t # u /\ "run_tx" \in pyRoles[t] \cap pyRoles[u]

(* The GIL and frames.mutex never deadlock: a method that keeps the GIL    *)
(* (rx, tx, get_status, send_ui) may wait for the mutex while another      *)
(* thread is in a callback that waits for the GIL.  Every call returns,    *)
(* unless two threads run run_tx and one takes the other's function away.  *)
PyCallReturns == \A t \in PyThreads :
    pyPc[t] # "idle" ~> pyPc[t] = "idle" \/ (PySpins(t) /\ PyShared)

(* A run_rx or run_tx whose function returned a wrong type raises          *)
(* RuntimeError, whatever the other threads call in between: the flag is   *)
(* shared by both.                                                         *)
PyErrorReported ==
    \A t \in PyThreads : pyPc[t] = "idle" /\ pyBad[t] => pyRaised[t]
=============================================================================
