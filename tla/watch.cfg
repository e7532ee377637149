SPECIFICATION FairSpec
CONSTANTS
    Dev = {"sda", "sda1", "sdb", "sdb1", "dm0"}
    Disk <- MCDisk
    Slaves <- MCSlaves
    Hardware = {"sda", "sdb"}
    Used = {"dm0"}
    Actor = {"sweep", "udev"}
    DiskFaults = {"record", "ioctl", "stop"}
    Cgroup <- MCCgroup
    Sub <- MCSub
    Slice <- MCSlice
    Machinery <- MCMachinery
    Proc = {"pid1", "watcher", "guard", "daemon", "udevd", "shell", "operator", "terminal", "tab", "desktop", "child", "userbus"}
    Pid1 = "pid1"
    Home <- MCHome
    Ppid <- MCPpid
    Sid <- MCSid
    Pgid <- MCPgid
    Shell = {"shell", "tab"}
    Unborn = {"child"}
    Restarting = {"daemon"}
    Runner = {"watcher", "guard", "operator"}
    Configs <- MCConfigs
    Faults = {"prepare", "enqueue"}
    Id = {1, 2}
    Debounce = 2
    MaxStep = 2
CHECK_DEADLOCK FALSE
INVARIANTS
    DisksAsFound
    KillExact
PROPERTIES
    EmergencyJustified
    SleepHeld
    EmergencyComes
