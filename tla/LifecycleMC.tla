---------------------------- MODULE LifecycleMC ----------------------------
(* ModuleLifecycle over all the drivers, and which of them keep what.       *)
EXTENDS ModuleLifecycle, DriverTables, GuideTables, TLC

AllRows == LessonTable @@ GuideTable
AllDrivers == DOMAIN AllRows

(* The others lose an error pointer, return a positive or zero status after *)
(* undoing, or jump to a label that forgets something.                      *)
CarefulDrivers ==
  {"first_cdev_old", "memory_alloc", "linked_list", "gpio_descriptors",
   "hrtimer", "kernel_threads", "mutex_threads", "completion_ex1",
   "completion_ex2", "completion_ex3",
   "procfs1", "procfs2", "procfs3", "procfs4", "sleep", "devicemodel",
   "devicetree", "spi", "hello_sysfs", "ioctl_test", "led", "dht11", "tasklet",
   "sched", "kbleds", "example_mutex", "example_rwlock", "example_spinlock",
   "vinput", "vkbd"}

(* The others never free their buffer, or leave a work item, a timer or a   *)
(* thread behind.                                                           *)
TidyDrivers ==
  AllDrivers \ {"file_ops", "mutex_file_ops", "bottomhalf", "kbleds", "machine"}

(* The others install a handler before the timer, the work item or the GPIO *)
(* it uses, free that first, leave a handler behind when the load fails, or *)
(* do not wait for a timer's function.                                      *)
OrderedDrivers ==
  AllDrivers \ {"gpio_irq", "bottom_half", "led", "dht11", "kbleds", "intrpt",
                "intrpt_arrays", "bottomhalf"}
=============================================================================
