---------------------------- MODULE DriverTables ----------------------------
(* The init and exit functions of the drivers of the lessons, a record of   *)
(* LifecycleSteps each.                                                     *)
EXTENDS LifecycleSteps
-----------------------------------------------------------------------------
(* 06/01: the results of class_create and device_create are tested with     *)
(* IS_ERR, and ENOMEM is returned without a minus sign.                     *)
FirstCdev ==
  [init |-> <<Step("region", <<>>, "neg"),
              Step("cdev", <<"region">>, "neg"),
              Step("class", <<"cdev", "region">>, "pos"),
              Step("device", <<"class", "cdev", "region">>, "pos")>>,
   exit |-> <<"device", "class", "cdev", "region">>,
   uses |-> NoCode]

FirstCdevOld ==
  [init |-> <<Step("chrdev", <<>>, "neg")>>, exit |-> <<"chrdev">>,
   uses |-> NoCode]

(* What every later character device does: class_create and device_create   *)
(* are tested for NULL.                                                     *)
CdevInit ==
  <<Step("region", <<>>, "neg"), Step("cdev", <<"region">>, "neg"),
    Unseen("class"), Unseen("device")>>
CdevExit == <<"device", "class", "cdev", "region">>

(* 07/01: dev_buffer is allocated first and never freed. *)
FileOps ==
  [init |-> <<Step("buffer", <<>>, "neg")>> \o CdevInit, exit |-> CdevExit,
   uses |-> Uses("cdev", {"buffer"})]

PrivateData == [init |-> CdevInit, exit |-> CdevExit, uses |-> NoCode]

Ioctl == [init |-> CdevInit, exit |-> CdevExit, uses |-> NoCode]

(* 19/01/test: as 07/01. *)
MutexFileOps ==
  [init |-> <<Step("buffer", <<>>, "neg")>> \o CdevInit, exit |-> CdevExit,
   uses |-> Uses("cdev", {"buffer"})]
-----------------------------------------------------------------------------
MemoryAlloc ==
  [init |-> <<Step("kmalloc", <<>>, "neg"),
              Step("kzalloc", <<"kmalloc">>, "neg"),
              Step("vmalloc", <<"kzalloc", "kmalloc">>, "neg"),
              Step("cache", <<"vmalloc", "kzalloc", "kmalloc">>, "neg"),
              Step("object", <<"cache", "vmalloc", "kzalloc", "kmalloc">>, "neg")>>,
   exit |-> <<"kmalloc", "kzalloc", "vmalloc", "object", "cache">>,
   uses |-> NoCode]

LinkedList ==
  [init |-> <<Step("node0", <<>>, "neg"),
              Step("node1", <<"node0">>, "neg"),
              Step("node2", <<"node0", "node1">>, "neg")>>,
   exit |-> <<"node0", "node1", "node2">>,
   uses |-> NoCode]
-----------------------------------------------------------------------------
(* 11: request_free returns -status, and status is negative. *)
GpioRequest ==
  [init |-> <<Step("led", <<>>, "pos"), Check(<<"led">>, "pos"),
              Step("button", <<"led">>, "pos"), Check(<<"led", "button">>, "pos")>>,
   exit |-> <<"led", "button">>,
   uses |-> NoCode]

GpioDescriptors ==
  [init |-> <<Check(<<>>, "neg"), Check(<<>>, "neg"), Check(<<>>, "neg"),
              Check(<<>>, "neg")>>,
   exit |-> <<>>,
   uses |-> NoCode]

(* 12/irq: the handler is installed before the timer it starts is set up. *)
GpioIrq ==
  [init |-> <<Check(<<>>, "neg"), Check(<<>>, "neg"), Check(<<>>, "pos"),
              Check(<<>>, "pos"), Step("irq", <<>>, "pos"), Sure("timer")>>,
   exit |-> <<"irq", "timer">>,
   uses |-> [c \in {"irq", "timer"} |-> IF c = "irq" THEN {"timer"} ELSE {}]]

(* 12/top_bottom_half: the LED is freed before the work that sets it. *)
BottomHalf ==
  [init |-> <<Step("led", <<>>, "pos"), Check(<<"led">>, "pos"),
              Step("button", <<"led">>, "pos"), Check(<<"led", "button">>, "pos"),
              Step("irq", <<"led", "button">>, "pos"), Sure("work")>>,
   exit |-> <<"led", "button", "irq", "work">>,
   uses |-> [c \in {"irq", "work"} |-> IF c = "irq" THEN {"work"} ELSE {"led"}]]

(* 13: the callback restarts its timer; hrtimer_cancel waits for it. *)
HrTimer ==
  [init |-> <<Start("hrtimer")>>, exit |-> <<"hrtimer">>,
   uses |-> Uses("hrtimer", {"hrtimer"})]

TwoThreads(undo) ==
  [init |-> <<Step("thread1", <<>>, "neg"), Step("thread2", undo, "neg")>>,
   exit |-> <<"thread1", "thread2">>,
   uses |-> NoCode]

(* Mutant: the first thread is left running, as in 19/03 below. *)
KernelThreadsLeft == TwoThreads(<<>>)
KernelThreads == TwoThreads(<<"thread1">>)

MutexThreads == TwoThreads(<<"thread1">>)
-----------------------------------------------------------------------------
(* external_gpio_irq_setup with descriptors: 01 and 02 return an            *)
(* uninitialized status when the descriptor is missing.  free_gpio of the   *)
(* callers does not destroy the device.                                     *)
IrqSetup(undo, missing) ==
  <<Check(undo, missing), Check(undo, "neg"), Step("irq", undo, "neg")>>
AfterDevice == <<"class", "cdev", "region">>

BusyWait ==
  [init |-> CdevInit \o IrqSetup(AfterDevice, "unset"),
   exit |-> <<"irq">> \o CdevExit, uses |-> NoCode]

WaitQueue ==
  [init |-> CdevInit \o IrqSetup(AfterDevice, "unset"),
   exit |-> <<"irq">> \o CdevExit, uses |-> NoCode]

(* 03, 04: external_gpio_irq_setup requests the GPIO; its status is lost    *)
(* and my_init returns the 0 of cdev_add.                                   *)
GpioIrqSetup ==
  <<Step("button", AfterDevice, "zero"),
    Check(<<"button">> \o AfterDevice, "zero"),
    Step("irq", <<"button">> \o AfterDevice, "zero")>>

Poll ==
  [init |-> CdevInit \o GpioIrqSetup,
   exit |-> <<"irq", "button">> \o CdevExit, uses |-> NoCode]

Fasync ==
  [init |-> CdevInit \o GpioIrqSetup,
   exit |-> <<"irq", "button">> \o CdevExit, uses |-> NoCode]

SpinlockWith(exit) ==
  [init |-> <<Step("buffer", <<>>, "neg")>> \o CdevInit
              \o IrqSetup(AfterDevice, "neg"),
   exit |-> exit \o CdevExit,
   uses |-> [c \in {"irq", "cdev"} |-> {"buffer"}]]

(* Mutants: the buffer goes before the handler that fills it, or stays. *)
SpinlockFreesFirst == SpinlockWith(<<"buffer", "irq">>)
SpinlockLeaks == SpinlockWith(<<"irq">>)
Spinlock == SpinlockWith(<<"irq", "buffer">>)
-----------------------------------------------------------------------------
(* 19/03: the second thread's failure leaves the first one running. *)
Completion ==
  [init |-> IrqSetup(<<>>, "neg")
              \o <<Step("thread1", <<"irq">>, "neg"), Step("thread2", <<"irq">>, "neg")>>,
   exit |-> <<"thread1", "thread2", "irq">>,
   uses |-> NoCode]

OneThread(undo) ==
  [init |-> IrqSetup(<<>>, "neg") \o <<Step("thread1", undo, "neg")>>,
   exit |-> <<"thread1", "irq">>,
   uses |-> NoCode]

(* Mutant: the label also stops the thread that was not created. *)
CompletionEx1Stops == OneThread(<<"thread1", "irq">>)
CompletionEx1 == OneThread(<<"irq">>)

CompletionEx2 == OneThread(<<"irq">>)

CompletionEx3 == OneThread(<<"irq">>)
-----------------------------------------------------------------------------
(* 15: i2c_get_adapter returns NULL when there is no adapter; the code      *)
(* tests for an error pointer, or tests an older status.  The adapter is    *)
(* not put back when the client cannot be created.                          *)
Bmp180Basic ==
  [init |-> <<Step("i2c_driver", <<>>, "neg"), Unseen("adapter"),
              Step("client", <<"i2c_driver">>, "neg"), Put("adapter")>>,
   exit |-> <<"client", "i2c_driver">>,
   uses |-> NoCode]

Bmp180Sensor ==
  [init |-> <<Step("i2c_driver", <<>>, "neg"), Unseen("adapter"),
              Step("client", <<"adapter", "i2c_driver">>, "neg"), Put("adapter")>>,
   exit |-> <<"client", "i2c_driver">>,
   uses |-> NoCode]
-----------------------------------------------------------------------------
LessonTable ==
  [first_cdev |-> FirstCdev, first_cdev_old |-> FirstCdevOld,
   file_ops |-> FileOps, private_data |-> PrivateData, ioctl |-> Ioctl,
   mutex_file_ops |-> MutexFileOps, memory_alloc |-> MemoryAlloc,
   linked_list |-> LinkedList, gpio_request |-> GpioRequest,
   gpio_descriptors |-> GpioDescriptors, gpio_irq |-> GpioIrq,
   bottom_half |-> BottomHalf, hrtimer |-> HrTimer,
   kernel_threads |-> KernelThreads, mutex_threads |-> MutexThreads,
   busy_wait |-> BusyWait, wait_queue |-> WaitQueue, poll |-> Poll,
   fasync |-> Fasync, spinlock |-> Spinlock, completion |-> Completion,
   completion_ex1 |-> CompletionEx1, completion_ex2 |-> CompletionEx2,
   completion_ex3 |-> CompletionEx3, bmp180_basic |-> Bmp180Basic,
   bmp180_sensor |-> Bmp180Sensor]
=============================================================================
