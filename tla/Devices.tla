------------------------------- MODULE Devices ---------------------------------
(***************************************************************************)
(* Device numbers (src/device.cc).  OpenMP numbers the n devices that are  *)
(* not the host from 0 to n - 1 and the host n; XKRT numbers the host 0    *)
(* and the others from 1.                                                  *)
(***************************************************************************)
EXTENDS Integers

HostUniqueId == 0
DefaultDevice == 0

\* get_ndevices() counts the host.
NumDevices(ndevices) == ndevices - 1
InitialDevice(ndevices) == NumDevices(ndevices)

\* C's remainder has the sign of the dividend.
Rem(d, n) == IF d >= 0 THEN d % n ELSE -((-d) % n)

\* A division by zero: every device number but the host's, without devices.
Divides(d, ndevices) == d = InitialDevice(ndevices) \/ NumDevices(ndevices) # 0

\* Mutation: forgets that the host has a number in XKRT.
OmpToXkompFrom0(d, ndevices) ==
  IF d = InitialDevice(ndevices) THEN HostUniqueId ELSE Rem(d, NumDevices(ndevices))

OmpToXkomp(d, ndevices) ==
  IF d = InitialDevice(ndevices) THEN HostUniqueId ELSE 1 + Rem(d, NumDevices(ndevices))

XkompToOmp(u, ndevices) ==
  IF u = HostUniqueId THEN NumDevices(ndevices) ELSE u - 1

\* omp_get_device_num of a thread on device u, omp_is_initial_device.
DeviceNum(u, ndevices) == IF u = HostUniqueId THEN InitialDevice(ndevices) ELSE u - 1
IsInitialDevice(u, ndevices) == DeviceNum(u, ndevices) = InitialDevice(ndevices)

\* Where omp_target_alloc puts memory, and what omp_target_memcpy asks XKRT to
\* copy.  The asynchronous one is a task of the source's device, whose body
\* submits the copy from there.
TargetAlloc(d, ndevices) == OmpToXkomp(d, ndevices)

TargetMemcpy(dst, src, ndevices) ==
  [dst |-> OmpToXkomp(dst, ndevices), src |-> OmpToXkomp(src, ndevices)]

AsyncArgs(dst, src, ndevices) ==
  [device |-> OmpToXkomp(src, ndevices),
   dst |-> OmpToXkomp(dst, ndevices), src |-> OmpToXkomp(src, ndevices)]
AsyncCopy(args) == [dst |-> args.dst, src |-> args.src]

-------------------------------------------------------------------------------

\* Both transfers copy between the devices the program's memory was allocated
\* on, and the device that submits the asynchronous one is the copy's source
\* (omp_target_alloc, omp_target_memcpy, omp_target_memcpy_async).
TransfersReach(ndevices) ==
  \A dst, src \in 0..NumDevices(ndevices) :
    LET copy == TargetMemcpy(dst, src, ndevices)
        args == AsyncArgs(dst, src, ndevices)
    IN  /\ copy = [dst |-> TargetAlloc(dst, ndevices), src |-> TargetAlloc(src, ndevices)]
        /\ AsyncCopy(args) = copy /\ args.device = copy.src
        /\ XkompToOmp(copy.dst, ndevices) = dst /\ XkompToOmp(copy.src, ndevices) = src

\* The two conversions are inverse to each other between the numbers OpenMP
\* gives the devices, the host's included, and XKRT's (omp_device_id_to_xkomp,
\* xkomp_device_unique_id_to_omp), so a transfer reaches the device it names.
RoundTrips(ndevices) ==
  /\ \A d \in 0..NumDevices(ndevices) :
       /\ Divides(d, ndevices)
       /\ OmpToXkomp(d, ndevices) \in 0..ndevices - 1
       /\ XkompToOmp(OmpToXkomp(d, ndevices), ndevices) = d
  /\ \A u \in 0..ndevices - 1 :
       /\ OmpToXkomp(DeviceNum(u, ndevices), ndevices) = u
       /\ IsInitialDevice(u, ndevices) <=> u = HostUniqueId
===============================================================================
