------------------------ MODULE DeviceListingProofs ------------------------
(***************************************************************************)
(* What the programs that look for printers get and show, for any number   *)
(* of them and any printers on the bus: ListInv is the invariant of        *)
(* hplp_usb_list (Discovery), ShowInv that of the command line             *)
(* (DeviceWatch), OfferInv that of the hplp device scheme: what PAPPL is   *)
(* offered, and what it opens by a URI, whatever the serial numbers of the *)
(* printers are.  What the codec of the URIs computes is DeviceUriProofs.  *)
(***************************************************************************)
EXTENDS DeviceListing, DeviceUriProofs, FiniteSetTheorems, FunctionTheorems

USE BusAssumption, DiscoveryAssumption, UriAssumption

-----------------------------------------------------------------------------
(* Lists of devices. *)

Listed(ds) == {ds[i].dev : i \in 1..Len(ds)}

Once(ds) == \A i, j \in 1..Len(ds) : ds[i].dev = ds[j].dev => i = j

\* An entry that is appended is named once if its device was not there.
LEMMA AppendNames ==
  ASSUME NEW S, NEW ds \in Seq(S), NEW d \in S
  PROVE  /\ Append(ds, d) \in Seq(S)
         /\ Listed(Append(ds, d)) = Listed(ds) \cup {d.dev}
         /\ Once(ds) /\ d.dev \notin Listed(ds) => Once(Append(ds, d))
  <1>1. /\ Append(ds, d) \in Seq(S)
        /\ Len(Append(ds, d)) = Len(ds) + 1 /\ Len(ds) \in Nat
        /\ \A i \in 1..Len(ds) : Append(ds, d)[i] = ds[i]
        /\ Append(ds, d)[Len(ds) + 1] = d
    OBVIOUS
  <1>2. ASSUME NEW x
        PROVE  x \in Listed(Append(ds, d)) <=> x \in Listed(ds) \cup {d.dev}
    <2>1. ASSUME x \in Listed(Append(ds, d))
          PROVE  x \in Listed(ds) \cup {d.dev}
      <3>1. PICK i \in 1..(Len(ds) + 1) : x = Append(ds, d)[i].dev
        BY <1>1, <2>1 DEF Listed
      <3>2. CASE i = Len(ds) + 1
        BY <1>1, <3>1, <3>2
      <3>3. CASE i \in 1..Len(ds)
        BY <1>1, <3>1, <3>3 DEF Listed
      <3> QED BY <1>1, <3>1, <3>2, <3>3
    <2>2. ASSUME x \in Listed(ds) \cup {d.dev}
          PROVE  x \in Listed(Append(ds, d))
      <3>1. CASE x = d.dev
        <4>1. Len(ds) + 1 \in 1..Len(Append(ds, d))
          BY <1>1
        <4> QED BY <1>1, <3>1, <4>1 DEF Listed
      <3>2. CASE x \in Listed(ds)
        <4>1. PICK i \in 1..Len(ds) : x = ds[i].dev
          BY <3>2 DEF Listed
        <4>2. i \in 1..Len(Append(ds, d)) /\ x = Append(ds, d)[i].dev
          BY <1>1, <4>1
        <4> QED BY <4>2 DEF Listed
      <3> QED BY <2>2, <3>1, <3>2
    <2> QED BY <2>1, <2>2
  <1>3. ASSUME Once(ds), d.dev \notin Listed(ds) PROVE Once(Append(ds, d))
    <2>1. \A i \in 1..Len(ds) : ds[i].dev # d.dev
      BY <1>3 DEF Listed
    <2> QED BY <1>1, <1>3, <2>1 DEF Once
  <1>4. Listed(Append(ds, d)) = Listed(ds) \cup {d.dev}
    BY <1>2
  <1> QED BY <1>1, <1>3, <1>4

\* A list in which no printer stands twice is as long as it has printers.
LEMMA OnceCounts ==
  ASSUME NEW ds \in Seq(UsbDevice), Once(ds)
  PROVE  IsFiniteSet(Listed(ds)) /\ Cardinality(Listed(ds)) = Len(ds)
  <1> DEFINE f == [i \in 1..Len(ds) |-> ds[i].dev]
  <1>1. Len(ds) \in Nat
    OBVIOUS
  <1>2. f \in Bijection(1..Len(ds), Listed(ds))
    <2>1. f \in [1..Len(ds) -> Listed(ds)]
      BY DEF Listed
    <2>2. ASSUME NEW t \in Listed(ds)
          PROVE  \E i \in 1..Len(ds) : f[i] = t
      <3>1. PICK i \in 1..Len(ds) : t = ds[i].dev
        BY DEF Listed
      <3> QED BY <3>1
    <2>3. \A i, j \in 1..Len(ds) : f[i] = f[j] => i = j
      BY DEF Once
    <2> HIDE DEF f
    <2> QED BY <2>1, <2>2, <2>3, Fun_IsBij
  <1>3. ExistsBijection(1..Len(ds), Listed(ds))
    BY <1>2 DEF ExistsBijection
  <1> QED BY <1>1, <1>3, FS_NatBijection, FS_CountingElements

-----------------------------------------------------------------------------
(* hplp_usb_list. *)

\* The supported printers that the second pass has still to write down.
ToCome(c) ==
    {p \in Supported : \/ \E r \in list[c] : r.dev = p
                       \/ dpc[c] = "string" /\ Printer(c) = p}

\* What the second pass has written and has still to write are the printers
\* counted in the first, each in one of the two and once.
ListInv(c) ==
    /\ dpc[c] # "string" => handle[c] = NoRef
    /\ dpc[c] = "string" =>
          Printer(c) \in Supported /\ \A r \in list[c] : r.dev # Printer(c)
    /\ \A r, s \in list[c] : r.dev = s.dev => r = s
    /\ Once(devices[c])
    /\ dpc[c] \in {"fill", "string"} =>
          /\ rc[c] = 0
          /\ found[c] = Listed(devices[c]) \cup ToCome(c)
          /\ Listed(devices[c]) \cap ToCome(c) = {}
          /\ matched[c] = Cardinality(found[c])
    /\ dpc[c] = "done" /\ rc[c] = 0 =>
          found[c] = Listed(devices[c]) /\ matched[c] = Cardinality(found[c])

Lists == ListTypeOK /\ \A c \in Clients : ListInv(c)

\* What a step of c leaves of the other programs' lists.
ListsSame(c) ==
    \A d \in Clients \ {c} :
        /\ dpc'[d] = dpc[d] /\ matched'[d] = matched[d]
        /\ devices'[d] = devices[d] /\ rc'[d] = rc[d] /\ found'[d] = found[d]
        /\ handle'[d] = handle[d] /\ list'[d] = list[d]

\* A listing knows of the bus and of itself, and of no other.
LEMMA ListsKept ==
  ASSUME NEW c \in Clients, Lists, ListTypeOK', ListInv(c)', ListsSame(c)
  PROVE  Lists'
  <1>1. ASSUME NEW d \in Clients \ {c} PROVE ListInv(d)'
    <2>1. ToCome(d)' = ToCome(d)
      BY DEF ListsSame, ToCome, Printer, Supported
    <2> QED BY <2>1 DEF Lists, ListsSame, ListInv, Printer, Supported
  <1> QED BY <1>1 DEF Lists

\* The bus has finitely many printers to count.
LEMMA CountType ==
  /\ Cardinality(Supported) \in Nat
  /\ \A S \in SUBSET Printers : IsFiniteSet(S) /\ Cardinality(S) \in Nat
  /\ \A S \in SUBSET Supported :
        Cardinality(S) \in 0..Cardinality(Supported)
  <1>1. ASSUME NEW S \in SUBSET Printers
        PROVE  IsFiniteSet(S) /\ Cardinality(S) \in Nat
    BY FS_Subset, FS_CardinalityType
  <1>2. IsFiniteSet(Supported) /\ Cardinality(Supported) \in Nat
    <2>1. Supported \in SUBSET Printers
      BY DEF Supported
    <2> QED BY <1>1, <2>1
  <1>3. ASSUME NEW S \in SUBSET Supported
        PROVE  Cardinality(S) \in 0..Cardinality(Supported)
    <2>1. IsFiniteSet(S) /\ Cardinality(S) <= Cardinality(Supported)
      BY <1>2, FS_Subset
    <2>2. Cardinality(S) \in Nat
      BY <2>1, FS_CardinalityType
    <2> QED BY <1>2, <2>1, <2>2
  <1> QED BY <1>1, <1>2, <1>3

\* The counting pass counts what is plugged.
LEMMA UsbListStep ==
  ASSUME NEW c \in Clients, Lists, UsbList(c) PROVE Lists'
  <1>1. /\ ListTypeOK /\ ListInv(c) /\ dpc[c] = "idle"
        /\ devices' = [devices EXCEPT ![c] = <<>>]
        /\ found' = [found EXCEPT ![c] = plugged \cap Supported]
        /\ UNCHANGED <<plugged, driver, owner, handle>>
    BY DEF UsbList, Step, Lists
  <1>2. /\ plugged \cap Supported \in SUBSET Printers
        /\ Cardinality(plugged \cap Supported) \in 0..Cardinality(Supported)
    BY <1>1, CountType DEF ListTypeOK, BusTypeOK
  <1>3. /\ devices' \in [Clients -> Seq(UsbDevice)]
        /\ found' \in [Clients -> SUBSET Printers]
        /\ devices'[c] = <<>> /\ found'[c] = plugged \cap Supported
    BY <1>1, <1>2 DEF ListTypeOK
  <1>4. Once(<<>>) /\ Listed(<<>>) = {}
    BY DEF Once, Listed
  <1>5. CASE /\ Step(c, "idle", "fill")
             /\ list' = [list EXCEPT ![c] = {[dev |-> p, live |-> TRUE] :
                                             p \in plugged}]
             /\ matched' = [matched EXCEPT
                              ![c] = Cardinality(plugged \cap Supported)]
             /\ rc' = [rc EXCEPT ![c] = 0]
    <2> DEFINE new == {[dev |-> p, live |-> TRUE] : p \in plugged}
    <2>1. new \in SUBSET Device
      <3>1. \A p \in plugged : [dev |-> p, live |-> TRUE] \in Device
        BY <1>1 DEF ListTypeOK, BusTypeOK, Device
      <3> QED BY <3>1
    <2>2. /\ list' \in [Clients -> SUBSET Device] /\ list'[c] = new
          /\ matched' \in [Clients -> 0..Cardinality(Supported)]
          /\ matched'[c] = Cardinality(plugged \cap Supported)
          /\ rc' \in [Clients -> {0, 1}] /\ rc'[c] = 0
          /\ dpc' = [dpc EXCEPT ![c] = "fill"] /\ dpc'[c] = "fill"
      BY <1>1, <1>2, <1>5, <2>1 DEF Step, ListTypeOK, BusTypeOK
    <2>3. ListTypeOK'
      BY <1>1, <1>3, <2>2 DEF ListTypeOK, BusTypeOK
    <2>4. ToCome(c)' = plugged \cap Supported
      <3>1. ASSUME NEW p \in plugged PROVE \E r \in new : r.dev = p
        <4>1. [dev |-> p, live |-> TRUE] \in new
          OBVIOUS
        <4> QED BY <4>1
      <3>2. \A r \in new : r.dev \in plugged
        OBVIOUS
      <3> QED BY <1>1, <2>2, <3>1, <3>2 DEF ToCome, Supported
    <2>5. \A r, s \in new : r.dev = s.dev => r = s
      <3>1. \A r \in new : r = [dev |-> r.dev, live |-> TRUE]
        OBVIOUS
      <3> QED BY <3>1
    <2>6. ListInv(c)'
      BY <1>1, <1>3, <1>4, <2>2, <2>4, <2>5 DEF ListInv
    <2>7. ListsSame(c)
      BY <1>1, <1>5, <2>2 DEF ListsSame, ListTypeOK, BusTypeOK
    <2> QED BY <2>3, <2>6, <2>7, ListsKept
  <1>6. CASE /\ Step(c, "idle", "done")
             /\ rc' = [rc EXCEPT ![c] = 1]
             /\ UNCHANGED <<list, matched>>
    <2>1. /\ dpc' = [dpc EXCEPT ![c] = "done"] /\ dpc'[c] = "done"
          /\ rc' \in [Clients -> {0, 1}] /\ rc'[c] = 1
      BY <1>1, <1>6 DEF Step, ListTypeOK
    <2>2. ListTypeOK'
      BY <1>1, <1>3, <1>6, <2>1 DEF ListTypeOK, BusTypeOK
    <2>3. ListInv(c)'
      BY <1>1, <1>3, <1>4, <1>6, <2>1 DEF ListInv
    <2>4. ListsSame(c)
      BY <1>1, <1>6, <2>1 DEF ListsSame, ListTypeOK, BusTypeOK
    <2> QED BY <2>2, <2>3, <2>4, ListsKept
  <1> QED BY <1>5, <1>6 DEF UsbList

\* Writing one more device down: it was still to come.
LEMMA FillStep ==
  ASSUME NEW c \in Clients, Lists, NEW p \in Supported,
         NEW state \in SerialStates, dpc[c] \in {"fill", "string"},
         Fill(c, p, state), Step(c, dpc[c], "fill"),
         p \in ToCome(c), ToCome(c)' = ToCome(c) \ {p},
         list' \in [Clients -> SUBSET Device], list'[c] \subseteq list[c],
         \A d \in Clients \ {c} : list'[d] = list[d] /\ handle'[d] = handle[d],
         handle' \in [Clients -> Device \cup {NoRef}], handle'[c] = NoRef,
         UNCHANGED <<plugged, driver, owner, matched, rc, found>>
  PROVE  Lists'
  <1> DEFINE d == [dev |-> p, serial_state |-> state]
  <1>1. /\ ListTypeOK /\ ListInv(c) /\ p \notin Listed(devices[c])
        /\ dpc' = [dpc EXCEPT ![c] = "fill"] /\ dpc'[c] = "fill"
        /\ devices[c] \in Seq(UsbDevice) /\ d \in UsbDevice /\ d.dev = p
    BY DEF Lists, ListInv, Step, ListTypeOK, UsbDevice, Supported
  <1>2. /\ Append(devices[c], d) \in Seq(UsbDevice)
        /\ Listed(Append(devices[c], d)) = Listed(devices[c]) \cup {p}
        /\ Once(Append(devices[c], d))
    BY <1>1, AppendNames DEF ListInv
  <1>3. /\ devices' = [devices EXCEPT ![c] = Append(devices[c], d)]
        /\ devices'[c] = Append(devices[c], d)
        /\ devices' \in [Clients -> Seq(UsbDevice)]
    BY <1>1, <1>2 DEF Fill, ListTypeOK
  <1>4. ListTypeOK'
    BY <1>1, <1>3 DEF ListTypeOK, BusTypeOK
  <1>5. ListsSame(c)
    BY <1>1, <1>3 DEF ListsSame, ListTypeOK
  <1>6. ListInv(c)'
    <2>1. \A r, s \in list'[c] : r.dev = s.dev => r = s
      BY <1>1 DEF ListInv
    <2>2. /\ Listed(devices[c])' = Listed(devices[c]) \cup {p}
          /\ Once(devices[c])'
      BY <1>2, <1>3 DEF Listed, Once
    <2>3. /\ found'[c] = Listed(devices[c]) \cup ToCome(c)
          /\ Listed(devices[c]) \cap ToCome(c) = {}
          /\ rc'[c] = 0 /\ matched'[c] = Cardinality(found'[c])
      BY <1>1 DEF ListInv
    <2> QED BY <1>1, <2>1, <2>2, <2>3 DEF ListInv
  <1> QED BY <1>4, <1>5, <1>6, ListsKept

\* The filling pass takes the next of them.
LEMMA NextDeviceStep ==
  ASSUME NEW c \in Clients, Lists, NextDevice(c) PROVE Lists'
  <1>1. PICK r \in list[c] :
          /\ list' = [list EXCEPT ![c] = @ \ {r}]
          /\ \/ /\ r.dev \notin Supported
                /\ Step(c, "fill", "fill")
                /\ UNCHANGED <<handle, devices>>
             \/ /\ r.dev \in Supported
                /\ Step(c, "fill", "fill")
                /\ \E state \in SerialStates : Fill(c, r.dev, state)
                /\ UNCHANGED handle
             \/ /\ r.dev \in Supported
                /\ Step(c, "fill", "string")
                /\ handle' = [handle EXCEPT ![c] = r]
                /\ UNCHANGED devices
    BY DEF NextDevice, SerialStates
  <1>2. /\ UNCHANGED <<plugged, driver, owner, matched, rc, found>>
        /\ dpc[c] = "fill" /\ ListTypeOK /\ ListInv(c)
    BY DEF NextDevice, Step, Lists
  <1>3. /\ r \in Device
        /\ list' \in [Clients -> SUBSET Device] /\ list'[c] = list[c] \ {r}
        /\ \A d \in Clients \ {c} : list'[d] = list[d]
        /\ \A s \in list[c] \ {r} : s.dev # r.dev
        /\ handle[c] = NoRef
    BY <1>1, <1>2 DEF ListTypeOK, BusTypeOK, ListInv
  <1>4. CASE /\ r.dev \notin Supported
             /\ Step(c, "fill", "fill")
             /\ UNCHANGED <<handle, devices>>
    <2>1. dpc' = dpc
      BY <1>2, <1>4 DEF Step, ListTypeOK
    <2>2. ToCome(c)' = ToCome(c)
      BY <1>2, <1>3, <1>4, <2>1 DEF ToCome, Supported
    <2>3. ListTypeOK' /\ ListsSame(c)
      BY <1>2, <1>3, <1>4, <2>1 DEF ListTypeOK, BusTypeOK, ListsSame
    <2>4. ListInv(c)'
      BY <1>2, <1>3, <1>4, <2>1, <2>2 DEF ListInv
    <2> QED BY <2>3, <2>4, ListsKept
  <1>5. ASSUME NEW state \in SerialStates, r.dev \in Supported,
               Step(c, "fill", "fill"), Fill(c, r.dev, state),
               UNCHANGED handle
        PROVE  Lists'
    <2>1. dpc'[c] = "fill"
      BY <1>2, <1>5 DEF Step, ListTypeOK
    <2>2. r.dev \in ToCome(c) /\ ToCome(c)' = ToCome(c) \ {r.dev}
      BY <1>1, <1>2, <1>3, <1>5, <2>1 DEF ToCome, Supported
    <2>3. handle' \in [Clients -> Device \cup {NoRef}] /\ handle'[c] = NoRef
      BY <1>2, <1>3, <1>5 DEF ListTypeOK, BusTypeOK
    <2> QED BY <1>2, <1>3, <1>5, <2>2, <2>3, FillStep
  <1>6. CASE /\ r.dev \in Supported
             /\ Step(c, "fill", "string")
             /\ handle' = [handle EXCEPT ![c] = r]
             /\ UNCHANGED devices
    <2>1. /\ dpc' = [dpc EXCEPT ![c] = "string"] /\ dpc'[c] = "string"
          /\ handle' \in [Clients -> Device \cup {NoRef}] /\ handle'[c] = r
      BY <1>2, <1>3, <1>6 DEF Step, ListTypeOK, BusTypeOK
    <2>2. ToCome(c)' = ToCome(c)
      BY <1>1, <1>2, <1>3, <1>6, <2>1 DEF ToCome, Supported, Printer
    <2>3. ListTypeOK' /\ ListsSame(c)
      BY <1>2, <1>3, <1>6, <2>1 DEF ListTypeOK, BusTypeOK, ListsSame
    <2>4. ListInv(c)'
      BY <1>2, <1>3, <1>6, <2>1, <2>2 DEF ListInv, Printer, Supported
    <2> QED BY <2>3, <2>4, ListsKept
  <1> QED BY <1>1, <1>4, <1>5, <1>6

\* Its serial number is read, or it is not.
LEMMA ReadStringStep ==
  ASSUME NEW c \in Clients, Lists, ReadString(c) PROVE Lists'
  <1>1. /\ dpc[c] = "string" /\ ListTypeOK /\ ListInv(c)
        /\ Printer(c) \in Supported
        /\ \A r \in list[c] : r.dev # Printer(c)
        /\ Step(c, "string", "fill") /\ CloseHandle(c)
        /\ UNCHANGED <<plugged, driver, owner, list, matched, rc, found>>
    BY DEF ReadString, Step, Lists, ListInv
  <1>2. PICK state \in SerialStates : Fill(c, Printer(c), state)
    BY DEF ReadString, SerialStates
  <1>3. /\ handle' \in [Clients -> Device \cup {NoRef}] /\ handle'[c] = NoRef
        /\ \A d \in Clients \ {c} : handle'[d] = handle[d]
        /\ list' \in [Clients -> SUBSET Device]
        /\ dpc'[c] = "fill"
    BY <1>1 DEF CloseHandle, Step, ListTypeOK, BusTypeOK
  <1>4. /\ Printer(c) \in ToCome(c)
        /\ ToCome(c)' = ToCome(c) \ {Printer(c)}
    BY <1>1, <1>3 DEF ToCome, Supported
  <1> QED BY <1>1, <1>2, <1>3, <1>4, FillStep

\* The filling pass ends with the list.
LEMMA LastDeviceStep ==
  ASSUME NEW c \in Clients, Lists, LastDevice(c) PROVE Lists'
  <1>1. /\ dpc[c] = "fill" /\ dpc' = [dpc EXCEPT ![c] = "done"]
        /\ list[c] = {} /\ ListTypeOK /\ ListInv(c)
        /\ UNCHANGED <<plugged, driver, owner, handle, list, matched, devices,
                       rc, found>>
    BY DEF LastDevice, Step, Lists, busVars
  <1>2. ToCome(c) = {} /\ dpc'[c] = "done"
    BY <1>1 DEF ToCome, ListTypeOK
  <1>3. ListTypeOK' /\ ListsSame(c)
    BY <1>1 DEF ListTypeOK, BusTypeOK, ListsSame
  <1>4. ListInv(c)'
    BY <1>1, <1>2 DEF ListInv
  <1> QED BY <1>3, <1>4, ListsKept

\* The caller frees the list.
LEMMA ListFreeStep ==
  ASSUME NEW c \in Clients, Lists, ListFree(c),
         Forget(c) \/ UNCHANGED found
  PROVE  Lists'
  <1>1. /\ dpc[c] = "done" /\ dpc' = [dpc EXCEPT ![c] = "idle"]
        /\ devices' = [devices EXCEPT ![c] = <<>>]
        /\ matched' = [matched EXCEPT ![c] = 0]
        /\ rc' = [rc EXCEPT ![c] = 0]
        /\ UNCHANGED <<plugged, driver, owner, handle, list>>
        /\ ListTypeOK /\ ListInv(c)
    BY DEF ListFree, Step, Lists, busVars
  <1>2. 0 \in 0..Cardinality(Supported) /\ <<>> \in Seq(UsbDevice)
    BY CountType
  <1>3. /\ devices' \in [Clients -> Seq(UsbDevice)] /\ devices'[c] = <<>>
        /\ found' \in [Clients -> SUBSET Printers]
        /\ \A d \in Clients \ {c} : found'[d] = found[d]
    BY <1>1, <1>2 DEF Forget, ListTypeOK
  <1>4. ListTypeOK' /\ ListsSame(c) /\ dpc'[c] = "idle"
    BY <1>1, <1>2, <1>3 DEF ListTypeOK, BusTypeOK, ListsSame
  <1>5. Once(<<>>)
    BY DEF Once
  <1>6. ListInv(c)'
    BY <1>1, <1>3, <1>4, <1>5 DEF ListInv
  <1> QED BY <1>4, <1>6, ListsKept

\* What stands in the list has no more to do with the bus than its names.
LEMMA UnplugLists ==
  ASSUME NEW p \in Printers, Lists, Unplug(p), UNCHANGED listVars
  PROVE  Lists'
  <1>1. /\ ListTypeOK
        /\ handle' = [c \in Clients |-> Stale(handle[c], p)]
        /\ list' = [c \in Clients |-> {Stale(r, p) : r \in list[c]}]
        /\ plugged' \subseteq Printers
        /\ driver' = [driver EXCEPT ![p] = "none"]
        /\ owner' = [owner EXCEPT ![p] = NoClient]
    BY DEF Lists, Unplug, ListTypeOK, BusTypeOK
  <1>2. \A r \in Device : Stale(r, p) \in Device /\ Stale(r, p).dev = r.dev
    BY DEF Stale, Device
  <1>3. Stale(NoRef, p) = NoRef
    BY DEF Stale, NoRef
  <1>4. ListTypeOK'
    <2>1. handle' \in [Clients -> Device \cup {NoRef}]
      BY <1>1, <1>2, <1>3 DEF ListTypeOK, BusTypeOK
    <2>2. list' \in [Clients -> SUBSET Device]
      <3>1. \A c \in Clients : {Stale(r, p) : r \in list[c]} \in SUBSET Device
        BY <1>1, <1>2 DEF ListTypeOK, BusTypeOK
      <3> QED BY <1>1, <3>1
    <2>3. /\ driver' \in [Printers -> Drivers]
          /\ owner' \in [Printers -> Clients \cup {NoClient}]
      BY <1>1 DEF ListTypeOK, BusTypeOK, Drivers
    <2> QED BY <1>1, <2>1, <2>2, <2>3 DEF ListTypeOK, BusTypeOK, listVars
  <1>5. ASSUME NEW c \in Clients PROVE ListInv(c)'
    <2>1. /\ list'[c] = {Stale(r, p) : r \in list[c]}
          /\ list[c] \subseteq Device
          /\ handle'[c] = Stale(handle[c], p)
          /\ handle[c] \in Device \/ handle[c] = NoRef
          /\ ListInv(c)
      BY <1>1 DEF ListTypeOK, BusTypeOK, Lists
    <2>2. handle'[c].dev = handle[c].dev
      BY <1>2, <1>3, <2>1
    <2>3. \A q :
             (\E r \in list'[c] : r.dev = q) <=> (\E r \in list[c] : r.dev = q)
      <3>1. ASSUME NEW r \in list[c] PROVE \E s \in list'[c] : s.dev = r.dev
        <4>1. Stale(r, p) \in list'[c] /\ Stale(r, p).dev = r.dev
          BY <1>2, <2>1
        <4> QED BY <4>1
      <3>2. ASSUME NEW s \in list'[c] PROVE \E r \in list[c] : s.dev = r.dev
        BY <1>2, <2>1
      <3> QED BY <3>1, <3>2
    <2>4. \A r, s \in list'[c] : r.dev = s.dev => r = s
      <3> SUFFICES ASSUME NEW r \in list'[c], NEW s \in list'[c],
                          r.dev = s.dev
                   PROVE  r = s
        OBVIOUS
      <3>1. PICK x \in list[c], y \in list[c] :
               r = Stale(x, p) /\ s = Stale(y, p)
        BY <2>1
      <3>2. x.dev = y.dev
        BY <1>2, <2>1, <3>1
      <3> QED BY <2>1, <3>1, <3>2 DEF ListInv
    <2>5. ToCome(c)' = ToCome(c)
      BY <2>2, <2>3 DEF ToCome, Supported, Printer, listVars
    <2>6. dpc[c] # "string" => handle'[c] = NoRef
      BY <1>3, <2>1 DEF ListInv
    <2>7. \A r \in list'[c] : \E s \in list[c] : s.dev = r.dev
      BY <2>3
    <2> QED BY <2>1, <2>2, <2>4, <2>5, <2>6, <2>7
            DEF ListInv, listVars, Printer, Supported
  <1> QED BY <1>4, <1>5 DEF Lists

\* A plug and an unplug leave the lists of libusb to the listings.
LEMMA PlugLists ==
  ASSUME Lists, UNCHANGED <<owner, handle, list, listVars>>,
         plugged' \subseteq Printers, driver' \in [Printers -> Drivers]
  PROVE  Lists'
  <1>1. ListTypeOK'
    BY DEF Lists, ListTypeOK, BusTypeOK, listVars
  <1>2. ASSUME NEW c \in Clients PROVE ListInv(c)'
    <2>1. ToCome(c)' = ToCome(c)
      BY DEF ToCome, Supported, Printer, listVars
    <2> QED BY <2>1 DEF Lists, ListInv, listVars, Printer, Supported
  <1> QED BY <1>1, <1>2 DEF Lists

-----------------------------------------------------------------------------
(* Every program.                                                          *)

\* At the start nothing is listed.
LEMMA InitLists == Init => Lists
  <1> SUFFICES ASSUME Init PROVE Lists
    OBVIOUS
  <1>1. ListTypeOK
    BY CountType DEF Init, MainInit, BusInit, ListInit, ListTypeOK, BusTypeOK,
       Drivers
  <1>2. ASSUME NEW c \in Clients PROVE ListInv(c)
    BY <1>2 DEF Init, MainInit, BusInit, ListInit, ListInv, Once
  <1> QED BY <1>1, <1>2 DEF Lists

\* The steps inside hplp_usb_list together.
LEMMA ListingSteps ==
  ASSUME NEW c \in Clients, Lists, Listing(c) PROVE Lists'
  BY NextDeviceStep, ReadStringStep, LastDeviceStep DEF Listing

\* The steps of --list and --watch.
LEMMA MainLists ==
  ASSUME NEW c \in Clients, Lists, MainStep(c) \/ on_signal(c)
  PROVE  Lists'
  <1>1. CASE Poll(c)
    BY <1>1, UsbListStep DEF Poll
  <1>2. CASE ListStep(c)
    BY <1>2, ListingSteps DEF ListStep
  <1>3. CASE PollError(c) \/ PollOk(c) \/ PrintDevices(c)
    <2>1. ListFree(c) /\ (Forget(c) \/ UNCHANGED found)
      BY <1>3 DEF PollError, PollOk, PrintDevices
    <2> QED BY <2>1, ListFreeStep
  <1>4. CASE StopWatching(c) \/ on_signal(c)
    <2>1. /\ UNCHANGED <<owner, handle, list, listVars>>
          /\ plugged' \subseteq Printers /\ driver' \in [Printers -> Drivers]
      BY <1>4 DEF StopWatching, on_signal, busVars, Lists, ListTypeOK,
         BusTypeOK
    <2> QED BY <2>1, PlugLists
  <1> QED BY <1>1, <1>2, <1>3, <1>4 DEF MainStep

\* The invariant of the listings is inductive.
LEMMA NextLists == Lists /\ [Next]_vars => Lists'
  <1> SUFFICES ASSUME Lists, [Next]_vars PROVE Lists'
    OBVIOUS
  <1>1. ASSUME NEW c \in Clients, CommandLine(c) \/ Signal(c) PROVE Lists'
    BY <1>1, MainLists DEF CommandLine, Signal
  <1>2. ASSUME NEW c \in Clients,
               StartListing(c) \/ ListingStep(c) \/ hplp_device_list(c)
        PROVE  Lists'
    BY <1>2, UsbListStep, ListingSteps, ListFreeStep
       DEF StartListing, ListingStep, hplp_device_list
  <1>3. ASSUME UNCHANGED <<busVars, listVars>> PROVE Lists'
    <2>1. /\ UNCHANGED <<owner, handle, list, listVars>>
          /\ plugged' \subseteq Printers /\ driver' \in [Printers -> Drivers]
      BY <1>3 DEF busVars, Lists, ListTypeOK, BusTypeOK
    <2> QED BY <2>1, PlugLists
  <1>4. ASSUME NEW c \in Clients, NEW uri,
               hplp_device_open(c, uri) \/ hplp_device_close(c)
        PROVE  Lists'
    BY <1>3, <1>4 DEF hplp_device_open, hplp_device_close
  <1>5. ASSUME NEW p \in Printers, Leaves(p) PROVE Lists'
    BY <1>5, UnplugLists DEF Leaves
  <1>6. ASSUME NEW p \in Printers, Arrives(p) PROVE Lists'
    <2>1. /\ UNCHANGED <<owner, handle, list, listVars>>
          /\ plugged' \subseteq Printers /\ driver' \in [Printers -> Drivers]
      BY <1>6 DEF Arrives, Plug, Lists, ListTypeOK, BusTypeOK, Drivers
    <2> QED BY <2>1, PlugLists
  <1> QED BY <1>1, <1>2, <1>3, <1>4, <1>5, <1>6 DEF Next, vars

\* What a listing has counted, filled and not yet seen, in every reachable
\* state (usb_discovery.c 75-151).
THEOREM ListInvariant == Spec => []Lists
  BY InitLists, NextLists, PTL DEF Spec

\* Whatever arrives, leaves and fails between the two passes: the list has
\* every supported printer that the first pass counted, once, and no handle is
\* left open (lines 48-60 and 96-139).
THEOREM ListIsComplete == Spec => []ListsEachOnce
  <1>1. Lists => ListsEachOnce
    <2> SUFFICES ASSUME Lists, NEW c \in Clients, dpc[c] = "done"
                 PROVE  /\ handle[c] = NoRef
                        /\ rc[c] = 0 =>
                              /\ Listed(devices[c]) = found[c]
                              /\ Len(devices[c]) = Cardinality(found[c])
      BY DEF ListsEachOnce, Listed
    <2>1. ListInv(c) /\ devices[c] \in Seq(UsbDevice)
      BY DEF Lists, ListTypeOK
    <2>2. Cardinality(Listed(devices[c])) = Len(devices[c])
      BY <2>1, OnceCounts DEF ListInv
    <2> QED BY <2>1, <2>2 DEF ListInv
  <1> QED BY <1>1, ListInvariant, PTL

\* The second pass writes inside the array that the first one has measured,
\* whatever has left the bus since (lines 96-137).
StaysInArray ==
    \A c \in Clients : dpc[c] \in {"fill", "string"} =>
        /\ Len(devices[c]) <= matched[c]
        /\ ToCome(c) # {} => Len(devices[c]) < matched[c]

\* result[out] is an element of the array each time a device is written down.
THEOREM NeverBeyondArray == Spec => []StaysInArray
  <1>1. Lists => StaysInArray
    <2> SUFFICES ASSUME Lists, NEW c \in Clients, dpc[c] \in {"fill", "string"}
                 PROVE  /\ Len(devices[c]) <= matched[c]
                        /\ ToCome(c) # {} => Len(devices[c]) < matched[c]
      BY DEF StaysInArray
    <2>1. /\ ListInv(c) /\ devices[c] \in Seq(UsbDevice)
          /\ found[c] \in SUBSET Printers
      BY DEF Lists, ListTypeOK
    <2>2. /\ Cardinality(Listed(devices[c])) = Len(devices[c])
          /\ IsFiniteSet(found[c]) /\ Cardinality(found[c]) \in Nat
          /\ Len(devices[c]) \in Nat
      BY <2>1, OnceCounts, CountType DEF ListInv
    <2>3. /\ found[c] = Listed(devices[c]) \cup ToCome(c)
          /\ Listed(devices[c]) \cap ToCome(c) = {}
          /\ matched[c] = Cardinality(found[c])
      BY <2>1 DEF ListInv
    <2>4. /\ Cardinality(Listed(devices[c])) <= Cardinality(found[c])
          /\ Cardinality(Listed(devices[c])) = Cardinality(found[c]) =>
                Listed(devices[c]) = found[c]
      <3>1. Listed(devices[c]) \in SUBSET found[c]
        BY <2>3
      <3> QED BY <2>2, <3>1, FS_Subset
    <2>5. ToCome(c) # {} => Listed(devices[c]) # found[c]
      BY <2>3
    <2> QED BY <2>2, <2>3, <2>4, <2>5
  <1> QED BY <1>1, ListInvariant, PTL

-----------------------------------------------------------------------------
(* The command line.                                                       *)

MainTypes ==
    /\ program \in [Clients -> Programs]
    /\ mpc \in [Clients -> {"loop", "list", "exited"}]
    /\ keep_running \in [Clients -> BOOLEAN]
    /\ last_state \in [Clients -> States]
    /\ shown \in [Clients -> [state : States, devices : Seq(UsbDevice)]]
    /\ latest \in [Clients -> States]
    /\ exit_code \in [Clients -> {0, 1}]

\* What is on the screen belongs to last_state, and to the last list.
ShowInv(c) ==
    /\ program[c] = "--watch" =>
          /\ last_state[c] = shown[c].state /\ latest[c] = shown[c].state
          /\ shown[c].state = 2 =>
                /\ shown[c].devices # <<>>
                /\ \A i \in 1..Len(shown[c].devices) :
                      shown[c].devices[i].serial_state # "PENDING"
    /\ program[c] = "--list" =>
          IF mpc[c] = "exited" /\ exit_code[c] = 0
          THEN Listed(shown[c].devices) = found[c]
          ELSE shown[c].devices = <<>>

Shows == MainTypes /\ \A c \in Clients : ShowInv(c)

\* A step that is none of main's: the list of a --list that has ended stays.
LEMMA MainSame ==
  ASSUME Shows, UNCHANGED mainVars,
         \A c \in Clients : program[c] = "--list" /\ mpc[c] = "exited" =>
             found'[c] = found[c]
  PROVE  Shows'
  <1>1. MainTypes'
    BY DEF Shows, MainTypes, mainVars
  <1>2. ASSUME NEW c \in Clients PROVE ShowInv(c)'
    BY DEF Shows, ShowInv, mainVars, Listed
  <1> QED BY <1>1, <1>2 DEF Shows

\* A step of c's main.
LEMMA MainOwn ==
  ASSUME NEW c \in Clients, Shows, MainTypes', ShowInv(c)',
         program' = program,
         \A d \in Clients \ {c} :
             /\ mpc'[d] = mpc[d] /\ last_state'[d] = last_state[d]
             /\ shown'[d] = shown[d] /\ latest'[d] = latest[d]
             /\ exit_code'[d] = exit_code[d] /\ found'[d] = found[d]
  PROVE  Shows'
  <1>1. ASSUME NEW d \in Clients \ {c} PROVE ShowInv(d)'
    BY DEF Shows, ShowInv, Listed
  <1> QED BY <1>1 DEF Shows

\* The three states of state_for_devices.
LEMMA StateIs ==
  ASSUME NEW ds \in Seq(UsbDevice)
  PROVE  /\ state_for_devices(ds) \in {0, 1, 2}
         /\ state_for_devices(ds) = 2 =>
               /\ ds # <<>>
               /\ \A i \in 1..Len(ds) : ds[i].serial_state # "PENDING"
  BY DEF state_for_devices

\* A poll that lists shows the state it found, if it is another.
LEMMA PollOkShows ==
  ASSUME NEW c \in Clients, Lists, Shows, PollOk(c) PROVE Shows'
  <1> DEFINE s == state_for_devices(devices[c])
  <1>1. /\ program[c] = "--watch" /\ mpc' = [mpc EXCEPT ![c] = "loop"]
        /\ Show(c, s) /\ latest' = [latest EXCEPT ![c] = s]
        /\ found' = [found EXCEPT ![c] = {}]
        /\ UNCHANGED <<program, keep_running, exit_code>>
        /\ MainTypes /\ ShowInv(c) /\ ListTypeOK
    BY DEF PollOk, Main, Forget, Shows, Lists
  <1>2. /\ devices[c] \in Seq(UsbDevice) /\ s \in States
        /\ s = 2 => /\ devices[c] # <<>>
                    /\ \A i \in 1..Len(devices[c]) :
                          devices[c][i].serial_state # "PENDING"
    BY <1>1, StateIs DEF ListTypeOK, States
  <1> HIDE DEF s
  <1>3. \A d \in Clients \ {c} :
           /\ mpc'[d] = mpc[d] /\ last_state'[d] = last_state[d]
           /\ shown'[d] = shown[d] /\ latest'[d] = latest[d]
           /\ exit_code'[d] = exit_code[d] /\ found'[d] = found[d]
    BY <1>1 DEF Show, MainTypes, ListTypeOK
  <1>4. CASE s = last_state[c]
    <2>1. MainTypes' /\ latest'[c] = s /\ UNCHANGED <<shown, last_state>>
      BY <1>1, <1>2, <1>4 DEF Show, MainTypes
    <2>2. ShowInv(c)'
      BY <1>1, <1>4, <2>1 DEF ShowInv
    <2> QED BY <1>1, <1>3, <2>1, <2>2, MainOwn
  <1>5. CASE s # last_state[c]
    <2>1. /\ last_state' = [last_state EXCEPT ![c] = s]
          /\ shown' = [shown EXCEPT ![c] = [state |-> s,
                                            devices |-> devices[c]]]
      BY <1>1, <1>5 DEF Show
    <2>2. /\ MainTypes' /\ latest'[c] = s /\ last_state'[c] = s
          /\ shown'[c] = [state |-> s, devices |-> devices[c]]
      BY <1>1, <1>2, <2>1 DEF MainTypes
    <2>3. ShowInv(c)'
      BY <1>1, <1>2, <2>2 DEF ShowInv
    <2> QED BY <1>1, <1>3, <2>2, <2>3, MainOwn
  <1> QED BY <1>4, <1>5

\* --list prints what it found, and its exit code says whether.
LEMMA PrintShows ==
  ASSUME NEW c \in Clients, Lists, Shows, PrintDevices(c) PROVE Shows'
  <1>1. /\ program[c] = "--list" /\ mpc[c] = "list" /\ dpc[c] = "done"
        /\ mpc' = [mpc EXCEPT ![c] = "exited"]
        /\ exit_code' = [exit_code EXCEPT ![c] = rc[c]]
        /\ shown' = IF rc[c] # 0 THEN shown
                    ELSE [shown EXCEPT ![c].devices = devices[c]]
        /\ UNCHANGED <<program, found, keep_running, last_state, latest>>
        /\ MainTypes /\ ShowInv(c) /\ ListTypeOK /\ ListInv(c)
    BY DEF PrintDevices, Main, ListFree, Step, Shows, Lists
  <1>2. rc[c] \in {0, 1} /\ devices[c] \in Seq(UsbDevice)
    BY <1>1 DEF ListTypeOK
  <1>3. \A d \in Clients \ {c} :
           /\ mpc'[d] = mpc[d] /\ last_state'[d] = last_state[d]
           /\ shown'[d] = shown[d] /\ latest'[d] = latest[d]
           /\ exit_code'[d] = exit_code[d] /\ found'[d] = found[d]
    BY <1>1 DEF MainTypes
  <1>4. MainTypes' /\ mpc'[c] = "exited" /\ exit_code'[c] = rc[c]
    BY <1>1, <1>2 DEF MainTypes
  <1>5. ShowInv(c)'
    <2>1. CASE rc[c] = 0
      <3>1. shown'[c].devices = devices[c] /\ found[c] = Listed(devices[c])
        BY <1>1, <2>1 DEF MainTypes, ListInv
      <3> QED BY <1>1, <1>4, <2>1, <3>1 DEF ShowInv, Listed
    <2>2. CASE rc[c] # 0
      BY <1>1, <1>4, <2>2 DEF ShowInv
    <2> QED BY <2>1, <2>2
  <1> QED BY <1>1, <1>3, <1>4, <1>5, MainOwn

\* The other steps of main leave what is on the screen.
LEMMA QuietShows ==
  ASSUME NEW c \in Clients, Lists, Shows,
         Poll(c) \/ PollError(c) \/ StopWatching(c) \/ on_signal(c)
  PROVE  Shows'
  <1>1. MainTypes /\ ShowInv(c) /\ ListTypeOK
    BY DEF Shows, Lists
  <1>2. /\ UNCHANGED <<program, last_state, shown, latest, exit_code>>
        /\ \A d \in Clients \ {c} : mpc'[d] = mpc[d] /\ found'[d] = found[d]
        /\ MainTypes'
    BY <1>1 DEF Poll, PollError, StopWatching, on_signal, Main, UsbList,
       Forget, listVars, MainTypes, ListTypeOK
  <1>3. program[c] = "--list" => mpc[c] = "loop" /\ mpc'[c] = "list"
    BY <1>1 DEF Poll, PollError, StopWatching, on_signal, Main, MainTypes
  <1>4. ShowInv(c)'
    BY <1>1, <1>2, <1>3 DEF ShowInv, Listed
  <1> QED BY <1>2, <1>4, MainOwn

\* At the start nothing is shown.
LEMMA InitShows == Init => Shows
  BY DEF Init, MainInit, Shows, MainTypes, ShowInv, States

\* What is shown is inductive, given the listings.
LEMMA NextShows == Lists /\ Shows /\ [Next]_vars => Shows'
  <1> SUFFICES ASSUME Lists, Shows, [Next]_vars PROVE Shows'
    OBVIOUS
  <1>1. ListTypeOK /\ MainTypes
    BY DEF Lists, Shows
  <1>2. ASSUME NEW c \in Clients, MainStep(c) \/ on_signal(c) PROVE Shows'
    <2>1. CASE ListStep(c)
      BY <2>1, MainSame DEF ListStep, Listing, NextDevice, ReadString,
         LastDevice
    <2> QED BY <1>2, <2>1, PollOkShows, PrintShows, QuietShows DEF MainStep
  <1>3. ASSUME NEW c \in Clients,
               StartListing(c) \/ ListingStep(c) \/ hplp_device_list(c)
        PROVE  Shows'
    <2>1. UNCHANGED mainVars /\ program[c] # "--list"
      BY <1>3 DEF StartListing, ListingStep, hplp_device_list
    <2>2. \A d \in Clients \ {c} : found'[d] = found[d]
      BY <1>1, <1>3 DEF StartListing, ListingStep, hplp_device_list, UsbList,
         Forget, Listing, NextDevice, ReadString, LastDevice, ListTypeOK
    <2> QED BY <2>1, <2>2, MainSame
  <1>4. ASSUME UNCHANGED <<mainVars, found>> PROVE Shows'
    BY <1>4, MainSame
  <1>5. ASSUME NEW c \in Clients, NEW uri,
               hplp_device_open(c, uri) \/ hplp_device_close(c)
        PROVE  Shows'
    BY <1>4, <1>5 DEF hplp_device_open, hplp_device_close, listVars
  <1>6. ASSUME NEW p \in Printers, Leaves(p) \/ Arrives(p) PROVE Shows'
    BY <1>4, <1>6 DEF Leaves, Arrives, listVars
  <1>7. CASE UNCHANGED vars
    BY <1>4, <1>7 DEF vars, listVars
  <1> QED BY <1>2, <1>3, <1>5, <1>6, <1>7 DEF Next, CommandLine, Signal

\* And so it always holds.
LEMMA ShowInvariant == Spec => [](Lists /\ Shows)
  <1>1. Init => Lists /\ Shows
    BY InitLists, InitShows
  <1>2. Lists /\ Shows /\ [Next]_vars => (Lists /\ Shows)'
    BY NextLists, NextShows
  <1> QED BY <1>1, <1>2, PTL DEF Spec

\* The types of the bus, of the lists and of the command line's programs; the
\* exit code is 0 or 1 (main.c lines 58-160).
THEOREM MainTypesCorrect == Spec => []MainTypeOK
  <1>1. Lists /\ Shows => MainTypeOK
    BY DEF Lists, Shows, MainTypes, MainTypeOK
  <1> QED BY <1>1, ShowInvariant, PTL

\* A watch shows the state of its last list that succeeded, and READY only
\* over printers whose serial numbers it has (lines 88-98 and 135-155).
THEOREM WatchShowsLatest == Spec => []ShowsLatest
  <1>1. Shows => ShowsLatest
    BY DEF Shows, ShowInv, ShowsLatest, Watching
  <1> QED BY <1>1, ShowInvariant, PTL

\* A --list that exits with 0 has printed every supported printer that was on
\* the bus when it looked, any other has printed none (lines 58-75).
THEOREM ListExitCode == Spec => []ExitCodeTells
  <1>1. Shows => ExitCodeTells
    BY DEF Shows, ShowInv, ExitCodeTells, Listed
  <1> QED BY <1>1, ShowInvariant, PTL

-----------------------------------------------------------------------------
(* What PAPPL is offered, and what it opens.                               *)

\* A serial number that was read is that of a printer that has one.
ReadInv(c) ==
    /\ dpc[c] = "string" => Printer(c) \in Serialised
    /\ \A i \in 1..Len(devices[c]) :
          devices[c][i].serial_state = "READY" =>
              devices[c][i].dev \in Serialised

Reads == \A c \in Clients : ReadInv(c)

\* The part of a client's listing that ReadInv is about.
ReadsSame(c) ==
    /\ dpc'[c] = dpc[c] /\ devices'[c] = devices[c]
    /\ handle'[c].dev = handle[c].dev

\* What the listing of a program has read, if the step is another's.
LEMMA ReadsKept ==
  ASSUME NEW c \in Clients, ReadInv(c), ReadsSame(c)
  PROVE  ReadInv(c)'
  BY DEF ReadInv, ReadsSame, Printer

\* A step of c's listing is none of another's.
LEMMA ReadsOfOthers ==
  ASSUME NEW c \in Clients, NEW d \in Clients \ {c}, Lists,
         UsbList(c) \/ Listing(c) \/ ListFree(c)
  PROVE  ReadsSame(d)
  <1>1. ListTypeOK /\ BusTypeOK
    BY DEF Lists, ListTypeOK
  <1>2. CASE UsbList(c)
    BY <1>1, <1>2 DEF UsbList, Step, ListTypeOK, BusTypeOK, ReadsSame
  <1>3. CASE NextDevice(c)
    BY <1>1, <1>3 DEF NextDevice, Fill, Step, ListTypeOK, BusTypeOK, ReadsSame
  <1>4. CASE ReadString(c)
    BY <1>1, <1>4 DEF ReadString, Fill, CloseHandle, Step, ListTypeOK,
       BusTypeOK, ReadsSame
  <1>5. CASE LastDevice(c) \/ ListFree(c)
    BY <1>1, <1>5 DEF LastDevice, ListFree, Step, busVars, ListTypeOK,
       BusTypeOK, ReadsSame
  <1> QED BY <1>2, <1>3, <1>4, <1>5 DEF Listing

\* Only a device with a serial number is written down as READY.
LEMMA FillReads ==
  ASSUME NEW c \in Clients, Lists, ReadInv(c), NEW p \in Printers,
         NEW state \in SerialStates, Fill(c, p, state),
         state = "READY" => p \in Serialised, dpc'[c] = "fill"
  PROVE  ReadInv(c)'
  <1> DEFINE ds == devices[c]
             d == [dev |-> p, serial_state |-> state]
  <1>1. ds \in Seq(UsbDevice) /\ d \in UsbDevice /\ devices'[c] = Append(ds, d)
    BY DEF Lists, ListTypeOK, Fill, UsbDevice
  <1>2. ASSUME NEW i \in 1..Len(Append(ds, d)),
               Append(ds, d)[i].serial_state = "READY"
        PROVE  Append(ds, d)[i].dev \in Serialised
    <2>1. CASE i = Len(ds) + 1
      BY <1>1, <1>2, <2>1
    <2>2. CASE i # Len(ds) + 1
      <3>1. i \in 1..Len(ds) /\ Append(ds, d)[i] = ds[i]
        BY <1>1, <2>2
      <3> QED BY <1>2, <3>1 DEF ReadInv
    <2> QED BY <2>1, <2>2
  <1> QED BY <1>1, <1>2 DEF ReadInv

\* A step of c's own listing.
LEMMA ReadsOfOwn ==
  ASSUME NEW c \in Clients, Lists, ReadInv(c),
         UsbList(c) \/ Listing(c) \/ ListFree(c)
  PROVE  ReadInv(c)'
  <1>1. ListTypeOK /\ BusTypeOK
    BY DEF Lists, ListTypeOK
  <1>2. CASE UsbList(c) \/ ListFree(c)
    <2>1. devices'[c] = <<>> /\ dpc'[c] # "string"
      BY <1>1, <1>2 DEF UsbList, ListFree, Step, ListTypeOK
    <2> QED BY <2>1 DEF ReadInv
  <1>3. CASE LastDevice(c)
    <2>1. devices'[c] = devices[c] /\ dpc'[c] # "string"
      BY <1>1, <1>3 DEF LastDevice, Step, ListTypeOK
    <2> QED BY <2>1 DEF ReadInv
  <1>4. CASE NextDevice(c)
    <2>1. PICK r \in list[c] :
            \/ dpc'[c] = "fill" /\ UNCHANGED devices
            \/ /\ dpc'[c] = "fill"
               /\ Fill(c, r.dev, "ABSENT") \/ Fill(c, r.dev, "PENDING")
            \/ /\ handle'[c] = r /\ r.dev \in Serialised
               /\ UNCHANGED devices
      BY <1>1, <1>4 DEF NextDevice, Step, ListTypeOK, BusTypeOK
    <2>2. r.dev \in Printers
      BY <1>1 DEF BusTypeOK, Device
    <2>3. ASSUME NEW state \in {"ABSENT", "PENDING"}, dpc'[c] = "fill",
                 Fill(c, r.dev, state)
          PROVE  ReadInv(c)'
      BY <2>2, <2>3, FillReads DEF SerialStates
    <2>4. CASE dpc'[c] = "fill" /\ UNCHANGED devices
      BY <2>4 DEF ReadInv
    <2>5. CASE handle'[c] = r /\ r.dev \in Serialised /\ UNCHANGED devices
      BY <2>5 DEF ReadInv, Printer
    <2> QED BY <2>1, <2>3, <2>4, <2>5
  <1>5. CASE ReadString(c)
    <2>1. dpc[c] = "string" /\ dpc'[c] = "fill" /\ Printer(c) \in Serialised
      BY <1>1, <1>5 DEF ReadString, Step, ListTypeOK, ReadInv
    <2>2. PICK state \in SerialStates : Fill(c, Printer(c), state)
      BY <1>5 DEF ReadString, SerialStates
    <2> QED BY <2>1, <2>2, FillReads
  <1> QED BY <1>2, <1>3, <1>4, <1>5 DEF Listing

\* Before anything is read, and after every step.
LEMMA InitReads == Init => Reads
  BY DEF Init, MainInit, ListInit, Reads, ReadInv

\* Whatever program takes the step.
LEMMA NextReads == Lists /\ Reads /\ [Next]_vars => Reads'
  <1> SUFFICES ASSUME Lists, Reads, [Next]_vars PROVE Reads'
    OBVIOUS
  <1>1. ASSUME NEW c \in Clients, UsbList(c) \/ Listing(c) \/ ListFree(c)
        PROVE  Reads'
    BY <1>1, ReadsOfOwn, ReadsOfOthers, ReadsKept DEF Reads
  <1>2. ASSUME UNCHANGED <<dpc, devices, handle>> PROVE Reads'
    BY <1>2, ReadsKept DEF Reads, ReadsSame
  <1>3. ASSUME NEW c \in Clients, MainStep(c) PROVE Reads'
    BY <1>1, <1>2, <1>3 DEF MainStep, Poll, ListStep, PollError, PollOk,
       PrintDevices, StopWatching, busVars, listVars
  <1>4. ASSUME NEW c \in Clients,
               StartListing(c) \/ ListingStep(c) \/ hplp_device_list(c)
        PROVE  Reads'
    BY <1>1, <1>4 DEF StartListing, ListingStep, hplp_device_list
  <1>5. ASSUME NEW p \in Printers, Leaves(p) PROVE Reads'
    <2>1. ASSUME NEW c \in Clients PROVE ReadsSame(c)
      BY <1>5 DEF Leaves, Unplug, Stale, listVars, ReadsSame, Lists,
         ListTypeOK, BusTypeOK, Device, NoRef
    <2> QED BY <2>1, ReadsKept DEF Reads
  <1>6. ASSUME NEW p \in Printers, Arrives(p) PROVE Reads'
    BY <1>2, <1>6 DEF Arrives, Plug, listVars
  <1>7. ASSUME NEW c \in Clients, NEW uri,
               \/ on_signal(c) \/ hplp_device_open(c, uri)
               \/ hplp_device_close(c)
        PROVE  Reads'
    BY <1>2, <1>7 DEF on_signal, hplp_device_open, hplp_device_close, busVars,
       listVars
  <1>8. CASE UNCHANGED vars
    BY <1>2, <1>8 DEF vars, busVars, listVars
  <1> QED BY <1>3, <1>4, <1>5, <1>6, <1>7, <1>8 DEF Next, CommandLine, Signal

\* An offer as it should be: of a printer that may be offered, with a serial
\* number that fits, and with the URI made of the two.
GoodOffers ==
    {o \in [dev    : Printers,
            serial : Seq(Bytes),
            uri    : [product : Products, serial : Seq(Bytes)]] :
        /\ ProfileVerified(ProductOf[o.dev])
        /\ o.dev \in Serialised
        /\ o.serial # <<>> /\ Len(o.serial) < SerialSize
        /\ o.uri = UriOf(ProductOf[o.dev], o.serial)}

\* What is offered of a device that may be offered.
LEMMA OfferIsGood ==
  ASSUME NEW d \in UsbDevice, Offerable(d),
         d.serial_state = "READY" => d.dev \in Serialised,
         NEW serial \in SerialStrings, serial # <<>>
  PROVE  Offer(d, serial) \in GoodOffers /\ Offer(d, serial).dev = d.dev
  <1>1. d.dev \in Printers /\ ProductOf[d.dev] \in Products
    BY DEF UsbDevice, Products
  <1>2. serial \in Seq(Bytes) /\ Len(serial) < SerialSize
    BY ListingAssumption DEF Bytes
  <1>3. UriOf(ProductOf[d.dev], serial)
           \in [product : Products, serial : Seq(Bytes)]
    <2>1. uri_encode_component(serial) \in Seq(Bytes)
      <3>1. Len(serial) \in 0..Len(serial)
        BY <1>2
      <3> QED BY <1>2, <3>1, EncodesWhole, EncodedIs
    <2> QED BY <1>1, <2>1 DEF UriOf
  <1> QED BY <1>1, <1>2, <1>3 DEF Offer, Offerable, GoodOffers

\* The loop over the devices, turn by turn.
LEMMA OfferedIs ==
  ASSUME NEW ds \in Seq(UsbDevice), NEW s \in [Ready(ds) -> SerialStrings],
         \A i \in 1..Len(ds) :
            ds[i].serial_state = "READY" => ds[i].dev \in Serialised
  PROVE  /\ Offered(ds, s) \in [0..Len(ds) -> Seq(GoodOffers)]
         /\ Offered(ds, s)[0] = <<>>
         /\ \A i \in 1..Len(ds) :
               Offered(ds, s)[i] =
                  IF i \in Named(ds, s)
                  THEN Append(Offered(ds, s)[i - 1], Offer(ds[i], s[i]))
                  ELSE Offered(ds, s)[i - 1]
  <1> DEFINE n == Len(ds)
             N == Named(ds, s)
             O(i) == Offer(ds[i], s[i])
             T == Seq(GoodOffers)
             a == <<>>
             v(i, t) == IF i \in N THEN Append(t, O(i)) ELSE t
             step == [it \in (1..n) \X T |-> v(it[1], it[2])]
             E(f) == f = [i \in 0..n |-> IF i = 0 THEN a ELSE v(i, f[i - 1])]
  <1>1. ASSUME NEW i \in N PROVE O(i) \in GoodOffers
    <2>1. /\ i \in 1..n /\ ds[i] \in UsbDevice /\ Offerable(ds[i])
          /\ s[i] \in SerialStrings /\ s[i] # <<>>
      BY DEF Named, Ready
    <2> QED BY <2>1, OfferIsGood
  <1>2. n \in Nat /\ a \in T
    OBVIOUS
  <1>3. /\ step \in [(1..n) \X T -> T]
        /\ \A i \in 1..n, t \in T : step[<<i, t>>] = v(i, t)
    <2> HIDE DEF N, O, n
    <2>1. ASSUME NEW i \in 1..n, NEW t \in T PROVE v(i, t) \in T
      BY <1>1
    <2> HIDE DEF v
    <2> QED BY <2>1
  <1>4. PICK g \in [0..n -> T] : Unrolls(g, n, a, step)
    <2> HIDE DEF n, a, v, step, T
    <2> QED BY <1>2, <1>3, Recursion
  <1>5. g[0] = a /\ \A i \in 1..n : g[i] = v(i, g[i - 1])
    <2>1. \A i \in 1..n : i - 1 \in 0..n
      BY <1>2
    <2> HIDE DEF n, a, v, step, T
    <2> QED BY <1>3, <1>4, <2>1 DEF Unrolls
  <1>6. E(g)
    <2> DEFINE w(i) == IF i = 0 THEN a ELSE v(i, g[i - 1])
    <2>1. ASSUME NEW i \in 0..n PROVE g[i] = w(i)
      <3>1. i # 0 => i \in 1..n
        BY <1>2
      <3> HIDE DEF n, a, v, T
      <3> QED BY <1>5, <3>1
    <2>2. g = [i \in 0..n |-> w(i)]
      <3> HIDE DEF w, T, n
      <3> QED BY <2>1
    <2> QED BY <2>2
  <1>7. Offered(ds, s) = CHOOSE f : E(f)
    BY DEF Offered
  <1> DEFINE h == Offered(ds, s)
  <1>8. E(h)
    <2> HIDE DEF E
    <2> QED BY <1>6, <1>7
  <1>9. h[0] = a /\ \A i \in 1..n : h[i] = v(i, h[i - 1])
    <2>1. 0 \in 0..n /\ \A i \in 1..n : i \in 0..n /\ i # 0
      BY <1>2
    <2> HIDE DEF n, a, v, h
    <2> QED BY <1>8, <2>1
  <1>10. h \in [0..n -> T]
    <2> DEFINE H == {i \in Nat : i <= n => h[i] \in T}
    <2>1. 0 \in H
      BY <1>2, <1>9
    <2>2. ASSUME NEW i \in Nat, i \in H PROVE i + 1 \in H
      <3> SUFFICES ASSUME i + 1 <= n PROVE h[i + 1] \in T
        OBVIOUS
      <3>1. i + 1 \in 1..n /\ (i + 1) - 1 = i
        BY <1>2
      <3> HIDE DEF n, T, v, h
      <3>2. h[i] \in T /\ h[i + 1] = v(i + 1, h[i])
        BY <1>2, <1>9, <2>2, <3>1
      <3>3. v(i + 1, h[i]) = step[<<i + 1, h[i]>>]
        BY <1>3, <3>1, <3>2
      <3> HIDE DEF step
      <3> QED BY <1>3, <3>1, <3>2, <3>3
    <2>3. Nat \subseteq H
      <3> HIDE DEF H
      <3> QED BY <2>1, <2>2, Induction
    <2>4. \A i \in 0..n : h[i] \in T
      <3> HIDE DEF h, T
      <3> QED BY <1>2, <2>3
    <2>5. h = [i \in 0..n |-> h[i]]
      <3> HIDE DEF v, a, n, h
      <3> QED BY <1>8
    <2> HIDE DEF h, T, n
    <2> QED BY <2>4, <2>5
  <1> QED BY <1>9, <1>10

\* It offers a device at most once if it is listed at most once.
LEMMA OfferedOnce ==
  ASSUME NEW ds \in Seq(UsbDevice), NEW s \in [Ready(ds) -> SerialStrings],
         \A i \in 1..Len(ds) :
            ds[i].serial_state = "READY" => ds[i].dev \in Serialised,
         Once(ds), NEW n \in 0..Len(ds)
  PROVE  Offered(ds, s)[n] \in Seq(GoodOffers) /\ Once(Offered(ds, s)[n])
  <1> DEFINE h == Offered(ds, s)
             Before(k) == {ds[j].dev : j \in 1..k}
             Good(k) == /\ h[k] \in Seq(GoodOffers) /\ Once(h[k])
                        /\ Listed(h[k]) \subseteq Before(k)
             H == {k \in Nat : k <= Len(ds) => Good(k)}
  <1>1. 0 \in H
    <2>1. h[0] = <<>>
      BY OfferedIs
    <2>2. Good(0)
      BY <2>1 DEF Once, Listed
    <2> HIDE DEF Good
    <2> QED BY <2>2
  <1>2. ASSUME NEW k \in Nat, k \in H PROVE k + 1 \in H
    <2> SUFFICES ASSUME k + 1 <= Len(ds) PROVE Good(k + 1)
      OBVIOUS
    <2>1. k + 1 \in 1..Len(ds) /\ (k + 1) - 1 = k /\ Good(k)
      <3> HIDE DEF Good
      <3> QED BY <1>2
    <2>2. h[k + 1] = IF k + 1 \in Named(ds, s)
                     THEN Append(h[k], Offer(ds[k + 1], s[k + 1])) ELSE h[k]
      BY <2>1, OfferedIs
    <2>3. Before(k) \subseteq Before(k + 1)
      OBVIOUS
    <2>4. CASE k + 1 \notin Named(ds, s)
      <3>1. h[k + 1] = h[k]
        BY <2>2, <2>4
      <3> HIDE DEF h, Before
      <3> QED BY <2>1, <2>3, <3>1
    <2>5. CASE k + 1 \in Named(ds, s)
      <3> DEFINE d == ds[k + 1]
                 o == Offer(d, s[k + 1])
      <3>1. /\ d \in UsbDevice /\ Offerable(d)
            /\ s[k + 1] \in SerialStrings /\ s[k + 1] # <<>>
            /\ d.serial_state = "READY" => d.dev \in Serialised
        BY <2>1, <2>5 DEF Named, Ready
      <3>2. o \in GoodOffers /\ o.dev = d.dev
        <4> HIDE DEF d
        <4> QED BY <3>1, OfferIsGood
      <3>3. d.dev \notin Before(k)
        BY <2>1 DEF Once
      <3>4. d.dev \in Before(k + 1)
        BY <2>1
      <3>5. h[k + 1] = Append(h[k], o)
        BY <2>2, <2>5
      <3>6. o.dev \notin Listed(h[k])
        <4> HIDE DEF d, o, h, Before
        <4> QED BY <2>1, <3>2, <3>3
      <3>7. /\ h[k + 1] \in Seq(GoodOffers) /\ Once(h[k + 1])
            /\ Listed(h[k + 1]) = Listed(h[k]) \cup {o.dev}
        <4> HIDE DEF d, o, h, Before
        <4> QED BY <2>1, <3>2, <3>5, <3>6, AppendNames
      <3> HIDE DEF d, o, h, Before
      <3> QED BY <2>1, <2>3, <3>2, <3>4, <3>7
    <2> QED BY <2>4, <2>5
  <1>3. Nat \subseteq H
    <2> HIDE DEF H
    <2> QED BY <1>1, <1>2, Induction
  <1>4. n \in Nat /\ n <= Len(ds)
    OBVIOUS
  <1>5. Good(n)
    <2> HIDE DEF Good
    <2> QED BY <1>3, <1>4
  <1> QED BY <1>5

\* What can be open: a product, and a serial number that fits its buffer.
Openings == [product : Products,
             serial  : {s \in Seq(Bytes) : s # <<>> /\ Len(s) < SerialSize}]

OfferInv ==
    /\ offers \in Seq(GoodOffers) /\ Once(offers)
    /\ opened \in SUBSET Openings /\ AtMostOne(opened)

\* A listing offers nothing but good offers.
LEMMA ListOffers ==
  ASSUME NEW c \in Clients, Lists, Reads, OfferInv, hplp_device_list(c)
  PROVE  OfferInv'
  <1> DEFINE ds == devices[c]
  <1>1. ds \in Seq(UsbDevice) /\ Once(ds)
    BY DEF Lists, ListTypeOK, ListInv
  <1>2. \A i \in 1..Len(ds) :
           ds[i].serial_state = "READY" => ds[i].dev \in Serialised
    BY DEF Reads, ReadInv
  <1>3. PICK s \in [Ready(ds) -> SerialStrings] :
           \E n \in Named(ds, s) \cup {Len(ds)} :
              offers' = Offered(ds, s)[n]
    BY DEF hplp_device_list
  <1>4. PICK n \in Named(ds, s) \cup {Len(ds)} : offers' = Offered(ds, s)[n]
    BY <1>3
  <1>5. n \in 0..Len(ds)
    BY <1>1 DEF Named, Ready
  <1> HIDE DEF ds
  <1>6. offers' \in Seq(GoodOffers) /\ Once(offers')
    BY <1>1, <1>2, <1>4, <1>5, OfferedOnce
  <1> QED BY <1>6 DEF OfferInv, Once, hplp_device_list

\* An open takes what the URI says, if it says anything.
LEMMA OpenOpens ==
  ASSUME NEW c \in Clients, OfferInv, NEW uri \in Uris,
         hplp_device_open(c, uri)
  PROVE  OfferInv'
  <1>1. uri \in [product : Products, serial : Seq(Bytes)]
    <2>1. CASE offers = <<>>
      BY <2>1, ListingAssumption DEF Uris, Bytes
    <2>2. CASE offers # <<>>
      <3>1. PICK i \in 1..Len(offers) : uri = offers[i].uri
        BY <2>2 DEF Uris
      <3>2. offers[i] \in GoodOffers
        BY DEF OfferInv
      <3> QED BY <3>1, <3>2 DEF GoodOffers
    <2> QED BY <2>1, <2>2
  <1>2. /\ uri.product \in Products /\ uri.serial \in Seq(Bytes)
        /\ uri = [product |-> uri.product, serial |-> uri.serial]
    BY <1>1
  <1>3. /\ AtMostOne(parse_hplp_uri(uri))
        /\ \A r \in parse_hplp_uri(uri) :
              /\ r = [product |-> uri.product, serial |-> r.serial]
              /\ r.serial \in Seq(Bytes) /\ r.serial # <<>>
              /\ Len(r.serial) < SerialSize
    BY <1>2, ParsedIsOne
  <1>4. \A r \in parse_hplp_uri(uri) : r \in Openings
    BY <1>2, <1>3 DEF Openings
  <1>5. offers' = <<>> /\ opened' = parse_hplp_uri(uri)
    BY DEF hplp_device_open
  <1> QED BY <1>3, <1>4, <1>5 DEF OfferInv, Once, AtMostOne

\* Before PAPPL does anything, and after every step.
LEMMA InitOffers == Init => OfferInv
  BY DEF Init, OfferInv, Once, AtMostOne

\* Whoever takes the step: a listing, PAPPL, or a printer that goes.
LEMMA NextOffers == Lists /\ Reads /\ OfferInv /\ [Next]_vars => OfferInv'
  <1> SUFFICES ASSUME Lists, Reads, OfferInv, [Next]_vars PROVE OfferInv'
    OBVIOUS
  <1>1. ASSUME UNCHANGED uriVars PROVE OfferInv'
    BY <1>1 DEF uriVars, OfferInv, Once
  <1>2. ASSUME NEW c \in Clients, StartListing(c) \/ hplp_device_close(c)
        PROVE  OfferInv'
    <2>1. opened' = {} /\ (offers' = <<>> \/ offers' = offers)
      BY <1>2 DEF StartListing, hplp_device_close
    <2>2. offers' \in Seq(GoodOffers) /\ Once(offers')
      <3>1. CASE offers' = <<>>
        BY <3>1 DEF Once
      <3>2. CASE offers' = offers
        BY <3>2 DEF OfferInv
      <3> QED BY <2>1, <3>1, <3>2
    <2>3. opened' \in SUBSET Openings /\ AtMostOne(opened')
      BY <2>1 DEF AtMostOne
    <2> QED BY <2>2, <2>3 DEF OfferInv, Once, AtMostOne
  <1>3. ASSUME NEW c \in Clients,
               CommandLine(c) \/ Signal(c) \/ ListingStep(c)
        PROVE  OfferInv'
    BY <1>1, <1>3 DEF CommandLine, Signal, ListingStep, uriVars
  <1>4. ASSUME NEW p \in Printers, Leaves(p) \/ Arrives(p) PROVE OfferInv'
    BY <1>1, <1>4 DEF Leaves, Arrives, uriVars
  <1>5. CASE UNCHANGED vars
    BY <1>1, <1>5 DEF vars
  <1> QED BY <1>2, <1>3, <1>4, <1>5, ListOffers, OpenOpens DEF Next

\* And so they always hold together.
LEMMA OfferInvariant == Spec => [](Lists /\ Reads /\ OfferInv)
  <1>1. Init => Lists /\ Reads /\ OfferInv
    BY InitLists, InitReads, InitOffers
  <1>2. Lists /\ Reads /\ OfferInv /\ [Next]_vars
           => (Lists /\ Reads /\ OfferInv)'
    BY NextLists, NextReads, NextOffers
  <1> QED BY <1>1, <1>2, PTL DEF Spec

\* Types of the whole device scheme: the strings that PAPPL is offered and that
\* it opens are strings of bytes, and one device at most is open
\* (pappl_device.c 16-93 and 126-130).
THEOREM UriTypes == Spec => []UriTypeOK
  <1>1. OfferInv => /\ offers \in Seq([dev : Printers, serial : Seq(Nat),
                                       uri : Names])
                    /\ opened \subseteq Names /\ Cardinality(opened) <= 1
    <2> SUFFICES ASSUME OfferInv
                 PROVE  /\ offers \in Seq([dev : Printers, serial : Seq(Nat),
                                           uri : Names])
                        /\ opened \subseteq Names /\ Cardinality(opened) <= 1
      OBVIOUS
    <2>1. ASSUME NEW s \in Seq(Bytes) PROVE s \in Seq(Nat)
      <3>1. Bytes \subseteq Nat
        BY DEF Bytes
      <3> QED BY <3>1, SeqMonotonic
    <2>2. ASSUME NEW o \in GoodOffers
          PROVE  o \in [dev : Printers, serial : Seq(Nat), uri : Names]
      BY <2>1 DEF GoodOffers, Names
    <2>3. offers \in Seq([dev : Printers, serial : Seq(Nat), uri : Names])
      <3>1. offers \in Seq(GoodOffers)
        BY DEF OfferInv
      <3>2. GoodOffers
              \subseteq [dev : Printers, serial : Seq(Nat), uri : Names]
        BY <2>2
      <3> QED BY <3>1, <3>2, SeqMonotonic
    <2>4. opened \subseteq Names
      BY <2>1 DEF OfferInv, Openings, Names
    <2>5. Cardinality(opened) <= 1
      <3>1. CASE opened = {}
        BY <3>1, FS_EmptySet
      <3>2. ASSUME NEW n \in opened PROVE Cardinality(opened) <= 1
        <4>1. \A m \in opened : m = n
          BY <3>2 DEF OfferInv, AtMostOne
        <4>2. opened = {n}
          BY <3>2, <4>1
        <4>3. Cardinality({n}) = 1
          BY FS_Singleton
        <4> QED BY <4>2, <4>3
      <3> QED BY <3>1, <3>2
    <2> QED BY <2>3, <2>4, <2>5
  <1>2. Lists /\ Shows => MainTypeOK
    BY DEF Lists, Shows, MainTypes, MainTypeOK
  <1> QED BY <1>1, <1>2, ShowInvariant, OfferInvariant, PTL DEF UriTypeOK

\* PAPPL is offered each printer once at most, none unverified or without a
\* serial number, and every URI it is offered opens the printer it was made
\* from, whatever bytes its serial number has (lines 16-130 and 152-183).
THEOREM OfferedCanBeOpened == Spec => []OffersOpen
  <1>1. OfferInv => OffersOpen
    <2> SUFFICES ASSUME OfferInv, NEW i \in 1..Len(offers)
                 PROVE  /\ ProfileVerified(ProductOf[offers[i].dev])
                        /\ offers[i].dev \in Serialised
                        /\ \A j \in 1..Len(offers) :
                              offers[i].dev = offers[j].dev => i = j
                        /\ parse_hplp_uri(offers[i].uri) =
                              {[product |-> ProductOf[offers[i].dev],
                                serial  |-> offers[i].serial]}
      BY DEF OffersOpen
    <2> DEFINE o == offers[i]
    <2>1. o \in GoodOffers
      BY DEF OfferInv
    <2>2. /\ o.serial \in Seq(Bytes) /\ o.serial # <<>>
          /\ Len(o.serial) < SerialSize
          /\ o.uri = UriOf(ProductOf[o.dev], o.serial)
      BY <2>1 DEF GoodOffers
    <2>3. parse_hplp_uri(o.uri) =
             {[product |-> ProductOf[o.dev], serial |-> o.serial]}
      <3> HIDE DEF o
      <3> QED BY <2>2, UriRoundTrip
    <2> QED BY <2>1, <2>3 DEF GoodOffers, OfferInv, Once
  <1> QED BY <1>1, OfferInvariant, PTL

\* Whatever URI is opened, a user's own too: the serial number it stands for
\* fits its buffer and has no 0, and the URI made from it opens the same
\* (lines 52-93 and 109-130).
THEOREM OpenedIsNamed == Spec => []OpenedCanBeNamed
  <1>1. OfferInv => OpenedCanBeNamed
    <2> SUFFICES ASSUME OfferInv, NEW n \in opened
                 PROVE  /\ n.serial # <<>> /\ Len(n.serial) < SerialSize
                        /\ 0 \notin {n.serial[i] : i \in 1..Len(n.serial)}
                        /\ parse_hplp_uri(UriOf(n.product, n.serial)) = {n}
      BY DEF OpenedCanBeNamed
    <2>1. /\ n.serial \in Seq(Bytes) /\ n.serial # <<>>
          /\ Len(n.serial) < SerialSize
          /\ n = [product |-> n.product, serial |-> n.serial]
      BY DEF OfferInv, Openings
    <2>2. ASSUME NEW i \in 1..Len(n.serial) PROVE n.serial[i] # 0
      <3>1. n.serial[i] \in Bytes
        BY <2>1, ElementOfSeq
      <3>2. \A b \in Bytes : b # 0
        BY DEF Bytes
      <3> QED BY <3>1, <3>2
    <2>3. parse_hplp_uri(UriOf(n.product, n.serial))
             = {[product |-> n.product, serial |-> n.serial]}
      BY <2>1, UriRoundTrip
    <2> QED BY <2>1, <2>2, <2>3
  <1> QED BY <1>1, OfferInvariant, PTL
=============================================================================
