---------------------------- MODULE GuideTables ----------------------------
(* The init and exit functions of the example modules of the Kernel Module  *)
(* Programming Guide (lkmpg-master/examples) and of the SPI lesson, a       *)
(* record of LifecycleSteps each.                                           *)
EXTENDS LifecycleSteps

(* One resource, given back by the exit function; the code it installs      *)
(* touches nothing another call acquires.                                   *)
Single(r) == [init |-> <<Step(r, <<>>, "neg")>>, exit |-> <<r>>, uses |-> NoCode]

Procfs1 == Single("proc")
Procfs2 == Single("proc")
Procfs3 == Single("proc")
Procfs4 == Single("proc")
SleepProc == Single("proc")
DeviceModel == Single("platform_driver")
DeviceTree == Single("platform_driver")
SpiMaster == Single("spi_driver")

(* kobject_put also removes the attribute file. *)
HelloSysfs ==
  [init |-> <<Step("kobject", <<>>, "neg"), Check(<<"kobject">>, "neg")>>,
   exit |-> <<"kobject">>, uses |-> NoCode]

(* The result of device_create is not looked at; device_destroy finds out   *)
(* itself.                                                                  *)
ExclusiveDevice ==
  [init |-> <<Step("chrdev", <<>>, "neg"), Step("class", <<"chrdev">>, "neg"),
              Unseen("device")>>,
   exit |-> <<"device", "class", "chrdev">>, uses |-> NoCode]
Chardev == ExclusiveDevice
Chardev2 == ExclusiveDevice
StaticKey == ExclusiveDevice

IoctlTest ==
  [init |-> <<Step("region", <<>>, "neg"), Step("cdev", <<"region">>, "neg")>>,
   exit |-> <<"cdev", "region">>, uses |-> NoCode]

(* led.c and dht11.c: five labels, each falling through to the next.  The   *)
(* file operations use the GPIO as soon as the device is there, and until   *)
(* the cdev goes.                                                           *)
GpioDevice(undo3) ==
  [init |-> <<Step("region", <<>>, "neg"), Step("cdev", <<"region">>, "neg"),
              Step("class", <<"cdev", "region">>, "neg"), Step("device", undo3, "neg"),
              Step("gpio", <<"device">> \o undo3, "neg"),
              Check(<<"gpio", "device">> \o undo3, "neg")>>,
   exit |-> <<"gpio", "device", "class", "cdev", "region">>,
   uses |-> Uses("cdev", {"gpio"})]

Fail3 == <<"class", "cdev", "region">>
Led == GpioDevice(Fail3)

(* Mutant: a label of dht11.c falls through to one too many. *)
Dht11Twice == GpioDevice(<<"device">> \o Fail3)
Dht11 == GpioDevice(Fail3)
-----------------------------------------------------------------------------
(* Two buttons and a LED, requested one by one or, before Linux 6.10, as    *)
(* arrays.  The second gpio_to_irq jumps to the label that forgets the      *)
(* first interrupt.                                                         *)
ButtonsOneByOne ==
  LET fail2 == <<"button0", "led">>
      fail3 == <<"button1">> \o fail2
  IN <<Step("led", <<>>, "neg"), Step("button0", <<"led">>, "neg"),
       Step("button1", fail2, "neg"), Check(fail3, "neg"),
       Step("irq0", fail3, "neg"), Check(fail3, "neg"),
       Step("irq1", <<"irq0">> \o fail3, "neg")>>

ButtonArrays ==
  LET fail2 == <<"buttons", "led">>
  IN <<Step("led", <<>>, "neg"), Step("buttons", <<"led">>, "neg"),
       Check(fail2, "neg"), Step("irq0", fail2, "neg"), Check(fail2, "neg"),
       Step("irq1", <<"irq0">> \o fail2, "neg")>>

ButtonsExit == <<"irq0", "irq1", "led", "button0", "button1">>
ButtonsUse(what) == [c \in {"irq0", "irq1"} |-> what]

Intrpt ==
  [init |-> ButtonsOneByOne, exit |-> ButtonsExit, uses |-> ButtonsUse({"led"})]

IntrptArrays ==
  [init |-> ButtonArrays, exit |-> <<"irq0", "irq1", "led", "buttons">>,
   uses |-> ButtonsUse({"led"})]

(* free_irq waits for the handler's thread; neither half touches anything.  *)
BothHalves == ButtonsUse({})

ThreadedHalf ==
  [init |-> ButtonsOneByOne, exit |-> ButtonsExit, uses |-> BothHalves]

(* bottomhalf.c: button_isr sets the LED and queues the work item, which    *)
(* touches nothing but the module's own text.                               *)
HandlersAndWork ==
  [c \in {"irq0", "irq1", "work"} |-> IF c = "work" THEN {} ELSE {"led", "work"}]

(* The work item is static and the exit function does not wait for it.      *)
WorkHalf ==
  [init |-> <<Sure("work")>> \o ButtonsOneByOne, exit |-> ButtonsExit,
   uses |-> HandlersAndWork]
-----------------------------------------------------------------------------
Tasklet ==
  [init |-> <<Start("tasklet")>>, exit |-> <<"tasklet">>,
   uses |-> Uses("tasklet", {})]

(* destroy_workqueue runs what is queued; the work item is static. *)
Sched ==
  [init |-> <<Step("queue", <<>>, "neg"), Start("work")>>,
   exit |-> <<"work", "queue">>,
   uses |-> Uses("work", {"queue"})]

(* kbleds.c: the timer's function adds its timer again, and del_timer does  *)
(* not wait for it.                                                         *)
KbLeds ==
  [init |-> <<Start("blink")>>, exit |-> <<"blink">>,
   uses |-> Uses("blink", {"blink"})]

(* completions.c: the threads end by themselves; the exit function waits    *)
(* for what they announce before they end, not for the threads.             *)
MachineThreads ==
  [init |-> <<Step("crank", <<>>, "neg"), Step("flywheel", <<"crank">>, "neg")>>,
   exit |-> <<>>, uses |-> NoCode]

(* Locks taken and given back by the init function itself. *)
ExampleMutex == [init |-> <<Sure("lock"), Put("lock")>>, exit |-> <<>>, uses |-> NoCode]
ExampleRwlock ==
  [init |-> <<Sure("reader"), Put("reader"), Sure("writer"), Put("writer")>>,
   exit |-> <<>>, uses |-> NoCode]
ExampleSpinlock ==
  [init |-> <<Sure("static"), Put("static"), Sure("dynamic"), Put("dynamic")>>,
   exit |-> <<>>, uses |-> NoCode]

Vinput ==
  [init |-> <<Step("chrdev", <<>>, "neg"), Step("class", <<"chrdev">>, "neg")>>,
   exit |-> <<"chrdev", "class">>, uses |-> NoCode]
Vkbd == [init |-> <<Sure("type")>>, exit |-> <<"type">>, uses |-> NoCode]
-----------------------------------------------------------------------------
GuideTable ==
  [procfs1 |-> Procfs1, procfs2 |-> Procfs2, procfs3 |-> Procfs3,
   procfs4 |-> Procfs4, sleep |-> SleepProc, devicemodel |-> DeviceModel,
   devicetree |-> DeviceTree, spi |-> SpiMaster, hello_sysfs |-> HelloSysfs,
   chardev |-> Chardev, chardev2 |-> Chardev2, static_key |-> StaticKey,
   ioctl_test |-> IoctlTest, led |-> Led, dht11 |-> Dht11, intrpt |-> Intrpt,
   intrpt_arrays |-> IntrptArrays, bh_threaded |-> ThreadedHalf,
   bottomhalf |-> WorkHalf, tasklet |-> Tasklet, sched |-> Sched,
   kbleds |-> KbLeds, machine |-> MachineThreads, example_mutex |-> ExampleMutex,
   example_rwlock |-> ExampleRwlock, example_spinlock |-> ExampleSpinlock,
   vinput |-> Vinput, vkbd |-> Vkbd]
=============================================================================
