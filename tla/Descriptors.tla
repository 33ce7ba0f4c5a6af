------------------------------ MODULE Descriptors ------------------------------
(***************************************************************************)
(* The descriptors of the VCP demo (Descriptors.c) and the callback        *)
(* CALLBACK_USB_GetDescriptor that LUFA's request processor calls for a    *)
(* GET_DESCRIPTOR.  A descriptor is a record of the fields the host reads; *)
(* the configuration descriptor is the sequence of its parts, in the order *)
(* of the members of USB_Descriptor_Configuration_t.  Vendor and product   *)
(* ids, class codes, BCD versions and string contents are left out: no     *)
(* property tells them apart.  Only string lengths are kept.               *)
(***************************************************************************)
EXTENDS Naturals, FiniteSets, Sequences

CONSTANTS
    NumConfigurations,     \* FIXED_NUM_CONFIGURATIONS
    StringIdManufacturer,  \* STRING_ID_Manufacturer (Descriptors.h)
    StringIdProduct,       \* STRING_ID_Product (Descriptors.h)
    SerialStrIndex         \* USE_INTERNAL_SERIAL (LUFA configuration)

\* bDescriptorType codes of USB 2.0 table 9-5 and CDC 1.1 table 24.
DTYPE_Device == 1
DTYPE_Configuration == 2
DTYPE_String == 3
DTYPE_Interface == 4
DTYPE_Endpoint == 5
DTYPE_CSInterface == 36

NO_DESCRIPTOR == 0

\* The sizes of LUFA's packed descriptor structs.
SizeOf == [Device |-> 18, ConfigHeader |-> 9, Interface |-> 9,
           FunctionalHeader |-> 5, FunctionalACM |-> 4, FunctionalUnion |-> 5,
           Endpoint |-> 7]

(***************************************************************************)
(* What lies at a descriptor's address, as the sequence of the descriptors *)
(* the host reads from it: one for the device and string descriptors, the  *)
(* configuration with its interfaces, functional descriptors and endpoints *)
(* for the configuration descriptor.  bLength is the length the code       *)
(* writes in the header, bytes the size of the object that follows.        *)
(***************************************************************************)

\* Lines 46-65.
DeviceDescriptor ==
    << [bLength |-> SizeOf.Device, bytes |-> SizeOf.Device,
        bDescriptorType |-> DTYPE_Device,
        iManufacturer |-> StringIdManufacturer, iProduct |-> StringIdProduct,
        iSerialNumber |-> SerialStrIndex,
        bNumConfigurations |-> NumConfigurations] >>

\* sizeof(USB_Descriptor_Configuration_t): the sum of its members.
TotalConfigurationSize ==
    SizeOf.ConfigHeader + SizeOf.Interface + SizeOf.FunctionalHeader
      + SizeOf.FunctionalACM + SizeOf.FunctionalUnion + SizeOf.Endpoint
      + SizeOf.Interface + 2 * SizeOf.Endpoint

\* A part of the configuration descriptor whose header says Size = sizeof(t)
\* and whose member has type t; n is the count a header declares (0 where
\* it declares none).
Part(t, type, n) ==
    [bLength |-> SizeOf[t], bytes |-> SizeOf[t], bDescriptorType |-> type, n |-> n]

\* Lines 71-174: the configuration header (two interfaces), the CDC control
\* interface with its functional descriptors and notification endpoint, the
\* data interface with its OUT and IN endpoints.  No part names a string.
ConfigurationDescriptor ==
  << [bLength |-> SizeOf.ConfigHeader, bytes |-> SizeOf.ConfigHeader,
      bDescriptorType |-> DTYPE_Configuration, n |-> 2,
      wTotalLength |-> TotalConfigurationSize, bConfigurationValue |-> 1],
     Part("Interface", DTYPE_Interface, 1),
     Part("FunctionalHeader", DTYPE_CSInterface, 0),
     Part("FunctionalACM", DTYPE_CSInterface, 0),
     Part("FunctionalUnion", DTYPE_CSInterface, 0),
     Part("Endpoint", DTYPE_Endpoint, 0),
     Part("Interface", DTYPE_Interface, 2),
     Part("Endpoint", DTYPE_Endpoint, 0),
     Part("Endpoint", DTYPE_Endpoint, 0) >>

\* sizeof a string literal of n characters, its terminating NUL included.
SizeofLiteral(n) == n + 1

\* Lines 176-230: the language table and the two strings; the arrays hold
\* two header bytes and two per UTF-16 character.
STR0LEN == 4
String0Desc == << [bLength |-> STR0LEN, bytes |-> 4, bDescriptorType |-> DTYPE_String] >>
STR1LEN == SizeofLiteral(25) * 2
String1Desc == << [bLength |-> STR1LEN, bytes |-> 2 + 2 * 25,
                   bDescriptorType |-> DTYPE_String] >>
STR2LEN == SizeofLiteral(16) * 2
String2Desc == << [bLength |-> STR2LEN, bytes |-> 2 + 2 * 16,
                   bDescriptorType |-> DTYPE_String] >>

\* The address the callback returns when it has no descriptor.
NULL == << >>

\* Mutant: the configuration case returns the size of the header alone.
CALLBACK_USB_GetDescriptor_HeaderSize(wValue) ==
    LET DescriptorType   == wValue \div 256
        DescriptorNumber == wValue % 256
    IN  CASE DescriptorType = DTYPE_Device ->
               [addr |-> DeviceDescriptor, size |-> SizeOf.Device]
          [] DescriptorType = DTYPE_Configuration ->
               [addr |-> ConfigurationDescriptor, size |-> SizeOf.ConfigHeader]
          [] DescriptorType = DTYPE_String /\ DescriptorNumber = 0 ->
               [addr |-> String0Desc, size |-> STR0LEN]
          [] DescriptorType = DTYPE_String /\ DescriptorNumber = 1 ->
               [addr |-> String1Desc, size |-> STR1LEN]
          [] DescriptorType = DTYPE_String /\ DescriptorNumber = 2 ->
               [addr |-> String2Desc, size |-> STR2LEN]
          [] OTHER -> [addr |-> NULL, size |-> NO_DESCRIPTOR]

(***************************************************************************)
(* Lines 232-272: the descriptor type is the high byte of wValue, the      *)
(* index the low byte; the size is NO_DESCRIPTOR unless a case matches.    *)
(***************************************************************************)
CALLBACK_USB_GetDescriptor(wValue) ==
    LET DescriptorType   == wValue \div 256
        DescriptorNumber == wValue % 256
    IN  CASE DescriptorType = DTYPE_Device ->
               [addr |-> DeviceDescriptor, size |-> SizeOf.Device]
          [] DescriptorType = DTYPE_Configuration ->
               [addr |-> ConfigurationDescriptor, size |-> TotalConfigurationSize]
          [] DescriptorType = DTYPE_String /\ DescriptorNumber = 0 ->
               [addr |-> String0Desc, size |-> STR0LEN]
          [] DescriptorType = DTYPE_String /\ DescriptorNumber = 1 ->
               [addr |-> String1Desc, size |-> STR1LEN]
          [] DescriptorType = DTYPE_String /\ DescriptorNumber = 2 ->
               [addr |-> String2Desc, size |-> STR2LEN]
          [] OTHER -> [addr |-> NULL, size |-> NO_DESCRIPTOR]

-----------------------------------------------------------------------------
(* The host's reading of a descriptor (USB 2.0 9.4.3 and 9.6).            *)

\* The string indices the device descriptor names, with the language table
\* (the configuration's iConfiguration and iInterface fields are all 0).
NamedStrings ==
    {0} \cup ({DeviceDescriptor[1].iManufacturer, DeviceDescriptor[1].iProduct,
               DeviceDescriptor[1].iSerialNumber} \ {NO_DESCRIPTOR})

\* Spec section 6: the device has a descriptor for wValue when it asks for
\* the device, the configuration or a string the descriptors name.
HasDescriptor(wValue) ==
    \/ wValue \div 256 \in {DTYPE_Device, DTYPE_Configuration}
    \/ wValue \div 256 = DTYPE_String /\ wValue % 256 \in NamedStrings

\* The host walks the parts by bLength: each header must give the size of
\* its part, the parts must add up to the length the first one declares,
\* and each count a header declares must match the parts that follow it.
Parses(a, type) ==
    LET sum[k \in 0 .. Len(a)] == IF k = 0 THEN 0 ELSE sum[k - 1] + a[k].bytes
        IsIf(k) == a[k].bDescriptorType = DTYPE_Interface
        ifs == {k \in 1 .. Len(a) : IsIf(k)}
        endpointsOf(k) == {j \in k + 1 .. Len(a) :
                             /\ a[j].bDescriptorType = DTYPE_Endpoint
                             /\ \A m \in k + 1 .. j - 1 : ~IsIf(m)}
    IN  /\ a # << >>
        /\ a[1].bDescriptorType = type
        /\ \A k \in 1 .. Len(a) : a[k].bLength = a[k].bytes
        /\ sum[Len(a)] = IF type = DTYPE_Configuration THEN a[1].wTotalLength
                         ELSE a[1].bLength
        /\ type = DTYPE_Configuration =>
              /\ a[1].n = Cardinality(ifs)
              /\ \A k \in ifs : a[k].n = Cardinality(endpointsOf(k))

\* The answer r to GET_DESCRIPTOR(wValue) is what the host can use: the
\* descriptor asked for, sent whole, or a stall when there is none.
ReplyPerSpec(wValue, r) ==
    IF HasDescriptor(wValue)
    THEN /\ Parses(r.addr, wValue \div 256)
         /\ r.size = IF wValue \div 256 = DTYPE_Configuration
                     THEN r.addr[1].wTotalLength ELSE r.addr[1].bLength
    ELSE r.size = NO_DESCRIPTOR
====
