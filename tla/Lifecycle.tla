----------------------------- MODULE Lifecycle ------------------------------
(***************************************************************************)
(* Loading and unloading the module (NVMeV_init and NVMeV_exit in main.c): *)
(* the objects that are created and freed, the threads that use them       *)
(* meanwhile, and the driver of the host, which finds the device as soon   *)
(* as its bus is added and is removed with the bus.                        *)
(*                                                                         *)
(* What the threads do is the subject of the other modules; here, a driver *)
(* needs the dispatcher to create and delete its queues, an I/O goes from  *)
(* the dispatcher to a worker and back as an interrupt, and leaves an      *)
(* internal operation (the release of write buffer) behind.  One pass of a *)
(* thread through its loop is a step.                                      *)
(***************************************************************************)
EXTENDS Integers, Sequences

CONSTANT
    NrWorkers   \* nr_io_workers, at least 1

Workers == 1 .. NrWorkers

VARIABLES
    mem,        \* objects that exist
    pc,         \* step of insmod or rmmod
    at,         \* the worker it starts or stops next
    disp,       \* the dispatcher thread: "none", "running" or "stopping"
    wk,         \* the worker threads
    driver,     \* the driver of the host
    admin,      \* its admin command: "create" or "delete" of the queues
    queues,     \* its I/O queues exist
    io,         \* its I/O: "none", "rung", "taken" or "posted"
    work        \* the requests in the queue of each worker

moduleVars == <<mem, pc, at, disp, wk, driver, admin, queues, io, work>>

hostVars == <<driver, admin, queues, io>>
threadVars == <<disp, wk, work>>

\* an object is its name, with the number of its worker
the(names) == names \X {0}
work_queue(w) == <<"work_queue", w>>
Objects == the({"vdev", "storage", "proc", "ns", "bus", "bar", "io_workers"})
             \cup {work_queue(w) : w \in Workers}

InitModule ==
    /\ mem = {}
    /\ pc = "unloaded"
    /\ at = 1
    /\ disp = "none"
    /\ wk = [w \in Workers |-> "none"]
    /\ driver = "none"
    /\ admin = "none"
    /\ queues = FALSE
    /\ io = "none"
    /\ work = [w \in Workers |-> {}]

creates(step, names, next) ==
    /\ pc = step /\ pc' = next
    /\ mem' = mem \cup the(names)
    /\ UNCHANGED <<at, threadVars, hostVars>>

frees(step, names, next) ==
    /\ pc = step /\ pc' = next
    /\ mem' = mem \ the(names)
    /\ UNCHANGED <<at, threadVars, hostVars>>

(***************************************************************************)
(* insmod: NVMeV_init().                                                   *)
(***************************************************************************)
VDEV_INIT == creates("unloaded", {"vdev"}, "configs")

\* the parameters are valid, or not: then the device is freed again
load_configs ==
    \/ creates("configs", {}, "storage_init")
    \/ frees("configs", {"vdev"}, "failed")

NVMEV_STORAGE_INIT == creates("storage_init", {"storage", "proc"}, "namespace_init")

NVMEV_NAMESPACE_INIT == creates("namespace_init", {"ns"}, "pci_init")

\* without a bus the device is freed, and nothing else
NVMEV_PCI_INIT ==
    \/ creates("pci_init", {"bus", "bar"}, "workers_init")
    \/ frees("pci_init", {"vdev"}, "failed")

\* one worker after the other; a thread runs before the next one is created
NVMEV_IO_WORKER_INIT ==
    /\ pc = "workers_init"
    /\ mem' = mem \cup the({"io_workers"}) \cup {work_queue(at)}
    /\ wk' = [wk EXCEPT ![at] = "running"]
    /\ IF at = NrWorkers THEN pc' = "dispatcher_init" /\ at' = 1
                         ELSE pc' = pc /\ at' = at + 1
    /\ UNCHANGED <<disp, work, hostVars>>

NVMEV_DISPATCHER_INIT ==
    /\ pc = "dispatcher_init" /\ pc' = "add_devices"
    /\ disp' = "running"
    /\ UNCHANGED <<mem, at, wk, work, hostVars>>

\* the driver is told of the device
pci_bus_add_devices ==
    /\ pc = "add_devices" /\ pc' = "loaded"
    /\ driver' = "probing"
    /\ UNCHANGED <<mem, at, threadVars, admin, queues, io>>

(***************************************************************************)
(* rmmod: NVMeV_exit().                                                    *)
(***************************************************************************)
\* mutants: the workers are stopped first; the dispatcher is stopped before the
\* bus
exit_order_workers_first ==
    <<"loaded", "stop_bus", "stop_workers", "stop_dispatcher", "namespace_final",
      "storage_final", "finalize", "unloaded">>
exit_order_bus_last ==
    <<"loaded", "stop_dispatcher", "stop_bus", "stop_workers", "namespace_final",
      "storage_final", "finalize", "unloaded">>

exit_order ==
    <<"loaded", "stop_bus", "stop_dispatcher", "stop_workers", "namespace_final",
      "storage_final", "finalize", "unloaded">>

after(step) == exit_order[1 + CHOOSE i \in 1 .. Len(exit_order) - 1 : exit_order[i] = step]

NVMeV_exit ==
    /\ pc = "loaded" /\ pc' = after(pc)
    /\ UNCHANGED <<mem, at, threadVars, hostVars>>

\* pci_stop_root_bus() asks the driver to leave the device, once it is through
\* with finding it
stop_root_bus ==
    /\ pc = "stop_bus" /\ driver = "bound"
    /\ driver' = "removing"
    /\ UNCHANGED <<mem, pc, at, threadVars, admin, queues, io>>

\* and waits until it has
remove_root_bus == driver = "none" /\ frees("stop_bus", {"bus"}, after("stop_bus"))

\* kthread_stop() tells the thread to stop, and waits
NVMEV_DISPATCHER_FINAL ==
    /\ pc = "stop_dispatcher"
    /\ \/ /\ disp = "running"
          /\ disp' = "stopping"
          /\ UNCHANGED pc
       \/ /\ disp = "none"
          /\ pc' = after(pc)
          /\ UNCHANGED disp
    /\ UNCHANGED <<mem, at, wk, work, hostVars>>

\* the same for each worker, whose work queue is freed before the next is stopped
NVMEV_IO_WORKER_FINAL ==
    /\ pc = "stop_workers"
    /\ \/ /\ wk[at] = "running"
          /\ wk' = [wk EXCEPT ![at] = "stopping"]
          /\ UNCHANGED <<mem, pc, at, work>>
       \/ /\ wk[at] = "none"
          /\ work' = [work EXCEPT ![at] = {}]
          /\ mem' = mem \ ({work_queue(at)} \cup (IF at = NrWorkers THEN the({"io_workers"}) ELSE {}))
          /\ IF at = NrWorkers THEN pc' = after(pc) /\ at' = 1
                               ELSE pc' = pc /\ at' = at + 1
          /\ UNCHANGED wk
    /\ UNCHANGED <<disp, hostVars>>

NVMEV_NAMESPACE_FINAL == frees("namespace_final", {"ns"}, after("namespace_final"))

NVMEV_STORAGE_FINAL == frees("storage_final", {"storage", "proc"}, after("storage_final"))

VDEV_FINALIZE == frees("finalize", {"vdev", "bar"}, after("finalize"))

(***************************************************************************)
(* The threads.                                                            *)
(***************************************************************************)
\* the dispatcher finds an admin command, or an I/O for a worker
dispatch_admin ==
    /\ disp = "running" /\ admin # "none"
    /\ queues' = (admin = "create")
    /\ admin' = "none"
    /\ UNCHANGED <<mem, pc, at, threadVars, driver, io>>

dispatch_io(w) ==
    /\ disp = "running" /\ queues /\ io = "rung"
    /\ io' = "taken"
    /\ work' = [work EXCEPT ![w] = @ \cup {"io", "internal"}]
    /\ UNCHANGED <<mem, pc, at, disp, wk, driver, admin, queues>>

dispatcher_ends ==
    /\ disp = "stopping"
    /\ disp' = "none"
    /\ UNCHANGED <<mem, pc, at, wk, work, hostVars>>

\* a worker reaches the target time of a request, and signals an interrupt
work_done(w, r) ==
    /\ wk[w] = "running" /\ r \in work[w]
    /\ work' = [work EXCEPT ![w] = @ \ {r}]
    /\ io' = IF r = "io" THEN "posted" ELSE io
    /\ UNCHANGED <<mem, pc, at, disp, wk, driver, admin, queues>>

worker_ends(w) ==
    /\ wk[w] = "stopping"
    /\ wk' = [wk EXCEPT ![w] = "none"]
    /\ UNCHANGED <<mem, pc, at, disp, work, hostVars>>

(***************************************************************************)
(* The driver of the host: it creates its queues, does I/O, and when it is *)
(* removed waits for its I/O and deletes them.                             *)
(***************************************************************************)
ask(state, has_queues, command) ==
    /\ driver = state /\ queues = has_queues /\ admin = "none" /\ io = "none"
    /\ admin' = command
    /\ UNCHANGED <<mem, pc, at, threadVars, driver, queues, io>>

becomes(state, has_queues, next) ==
    /\ driver = state /\ queues = has_queues /\ admin = "none" /\ io = "none"
    /\ driver' = next
    /\ UNCHANGED <<mem, pc, at, threadVars, admin, queues, io>>

create_queues == ask("probing", FALSE, "create")
probed == becomes("probing", TRUE, "bound")
delete_queues == ask("removing", TRUE, "delete")
removed == becomes("removing", FALSE, "none")

submit_io ==
    /\ driver = "bound" /\ io = "none"
    /\ io' = "rung"
    /\ UNCHANGED <<mem, pc, at, threadVars, driver, admin, queues>>

handle_irq ==
    /\ io = "posted"
    /\ io' = "none"
    /\ UNCHANGED <<mem, pc, at, threadVars, driver, admin, queues>>

(***************************************************************************)
(* The specification.                                                      *)
(***************************************************************************)
Load ==
    \/ VDEV_INIT \/ load_configs \/ NVMEV_STORAGE_INIT \/ NVMEV_NAMESPACE_INIT
    \/ NVMEV_PCI_INIT \/ NVMEV_IO_WORKER_INIT \/ NVMEV_DISPATCHER_INIT \/ pci_bus_add_devices

Unload ==
    \/ stop_root_bus \/ remove_root_bus \/ NVMEV_DISPATCHER_FINAL \/ NVMEV_IO_WORKER_FINAL
    \/ NVMEV_NAMESPACE_FINAL \/ NVMEV_STORAGE_FINAL \/ VDEV_FINALIZE

Dispatcher == dispatch_admin \/ dispatcher_ends \/ \E w \in Workers : dispatch_io(w)

Worker(w) == worker_ends(w) \/ \E r \in {"io", "internal"} : work_done(w, r)

\* what the driver does sooner or later
Driver == create_queues \/ probed \/ delete_queues \/ removed \/ handle_irq

NextModule ==
    \/ Load \/ NVMeV_exit \/ Unload
    \/ Dispatcher \/ \E w \in Workers : Worker(w)
    \/ Driver \/ submit_io

\* every thread runs; nobody has to load or unload the module or to do I/O
ModuleFairness ==
    /\ WF_moduleVars(Unload) /\ WF_moduleVars(Dispatcher) /\ \A w \in Workers : WF_moduleVars(Worker(w))
    /\ WF_moduleVars(Driver)

ModuleSpec == InitModule /\ [][NextModule]_moduleVars /\ ModuleFairness

(***************************************************************************)
(* Properties.                                                             *)
(***************************************************************************)
ModuleTypeOK ==
    /\ mem \subseteq Objects /\ at \in Workers
    /\ \A w \in Workers : work[w] \subseteq {"io", "internal"}

\* at every moment of loading and unloading, what a thread, the driver or a proc
\* file may touch exists: a dispatcher needs all the workers' queues, a worker
\* with requests the namespaces, and what it posts the device on the bus.  After
\* unloading nothing is left.  (A load that fails for want of a bus leaves
\* storage, proc files and namespaces behind)
ObjectsOutliveUsers ==
    /\ ModuleTypeOK
    /\ disp # "none" =>
         the({"vdev", "bar", "ns", "storage", "io_workers"}) \cup {work_queue(w) : w \in Workers} \subseteq mem
    /\ \A w \in Workers : wk[w] # "none" =>
         the({"vdev", "ns", "storage", "io_workers"}) \cup {work_queue(w)} \subseteq mem
    /\ driver # "none" \/ io # "none" => the({"vdev", "bus", "bar"}) \subseteq mem
    /\ pc # "failed" /\ the({"proc"}) \subseteq mem => the({"vdev", "storage"}) \subseteq mem
    /\ pc = "unloaded" => mem = {} /\ disp = "none" /\ \A w \in Workers : wk[w] = "none"

\* unloading comes to its end: nobody waits for a thread that has been stopped
UnloadEnds == (pc = "stop_bus") ~> (pc = "unloaded")
=============================================================================
