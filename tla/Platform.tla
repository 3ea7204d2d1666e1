------------------------------ MODULE Platform ------------------------------
(***************************************************************************)
(* The device model of the Linux layer (linux/compat.c, linux/server.c and *)
(* drivers/hello): tables of platform devices and drivers, and the match   *)
(* of a newly registered driver with the devices there are.                *)
(*                                                                         *)
(* A device is its name and its resources, each the set of its flags; a    *)
(* driver is its name and the interrupt its probe function requests, or    *)
(* NoIrq as for the hello driver.  NoDriver is an empty entry of the       *)
(* initcall section.                                                       *)
(***************************************************************************)
EXTENDS Integers, Sequences

CONSTANTS
    MAX_PLATFORM_DEVICES,   \* 8 in the code
    MAX_PLATFORM_DRIVERS    \* 8 in the code

NoIrq == -1
NoDriver == [name |-> "NULL", irq |-> NoIrq]
Devices == [name : STRING, resources : Seq(SUBSET STRING)]
Drivers(irqs) == [name : STRING, irq : irqs \cup {NoIrq}]

\* pdevices and pdrivers; what each driver made of each device; drvdata.
platform_empty == [devices |-> <<>>, drivers |-> <<>>, probes |-> {}, again |-> FALSE, drvdata |-> {}]

\* compat_register_platform_device: refused when the table is full.
compat_register_platform_device(p, dev) ==
    IF Len(p.devices) >= MAX_PLATFORM_DEVICES THEN p
    ELSE [p EXCEPT !.devices = Append(@, dev)]

DriversFull(p) == Len(p.drivers) >= MAX_PLATFORM_DRIVERS

\* Mutant: the loop starts at the second device.
FirstDeviceSkipped == 2

\* The first device the loop of platform_driver_register looks at.
FirstDevice == 1

\* streq of the names.
Matches(p, i, drv) == p.devices[i].name = drv.name

\* platform_get_resource: the index of the resource number num (from 0) that has the flag,
\* or 0 for NULL.
platform_get_resource(dev, type, num) ==
    LET ofType == SelectSeq([k \in 1 .. Len(dev.resources) |-> k],
                            LAMBDA k : type \in dev.resources[k])
    IN  IF num < Len(ofType) THEN ofType[num + 1] ELSE 0

\* A call of the probe function of driver number d on device i, as far as hello_probe goes:
\* the device gets its data unless it has no memory resource or kzalloc fails.
Probed(p, d, i, alloc_ok) ==
    [p EXCEPT !.again = @ \/ <<d, i>> \in p.probes,
              !.probes = @ \cup {<<d, i>>},
              !.drvdata = IF platform_get_resource(p.devices[i], "MEM", 0) # 0 /\ alloc_ok
                          THEN @ \cup {<<d, i>>} ELSE @]

=============================================================================
