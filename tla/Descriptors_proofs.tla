--------------------------- MODULE Descriptors_proofs ---------------------------
(***************************************************************************)
(* Proofs about the descriptors of Descriptors.c and the callback          *)
(* CALLBACK_USB_GetDescriptor.  The descriptors are constants, so what the *)
(* host's parser (Parses) computes of each is a finite computation; the    *)
(* only step that needs care is the running sum of the parts' lengths, a   *)
(* recursive function, which is unfolded once an explicit function is      *)
(* shown to satisfy its defining equation.                                 *)
(***************************************************************************)
EXTENDS Descriptors, FiniteSetTheorems, TLAPS

\* The defining equation of the running sum of a's lengths that Parses uses.
IsLengthSum(f, a) ==
    f = [k \in 0 .. Len(a) |-> IF k = 0 THEN 0 ELSE f[k - 1] + a[k].bytes]

\* The running sum Parses computes is total when some function satisfies
\* its equation and every one that does ends in total.
LEMMA LengthSum ==
  ASSUME NEW a, NEW total,
         \E f : IsLengthSum(f, a),
         \A f : IsLengthSum(f, a) => f[Len(a)] = total
  PROVE  LET sum[k \in 0 .. Len(a)] ==
                 IF k = 0 THEN 0 ELSE sum[k - 1] + a[k].bytes
         IN  sum[Len(a)] = total
BY Zenon DEF IsLengthSum

\* A descriptor of one header whose bLength is the size of what follows it
\* parses as the type it declares (the device and the string descriptors).
LEMMA OneHeaderParses ==
  ASSUME NEW h, NEW type, h.bytes \in Nat, h.bLength = h.bytes,
         h.bDescriptorType = type, type # DTYPE_Configuration
  PROVE  Parses(<<h>>, type)
<1>1. \E f : IsLengthSum(f, <<h>>)
  <2>1. IsLengthSum([k \in 0 .. 1 |-> IF k = 0 THEN 0 ELSE h.bytes], <<h>>)
    BY DEF IsLengthSum
  <2>2. QED
    BY <2>1
<1>2. \A f : IsLengthSum(f, <<h>>) => f[Len(<<h>>)] = h.bLength
  BY DEF IsLengthSum
<1>3. LET sum[k \in 0 .. Len(<<h>>)] ==
              IF k = 0 THEN 0 ELSE sum[k - 1] + <<h>>[k].bytes
      IN  sum[Len(<<h>>)] = h.bLength
  BY <1>1, <1>2, LengthSum
<1>4. QED
  BY <1>3 DEF Parses

\* The running sum of the configuration descriptor's parts is the
\* wTotalLength its header declares, sizeof(USB_Descriptor_Configuration_t).
LEMMA ConfigurationLength ==
  LET a == ConfigurationDescriptor
      sum[k \in 0 .. Len(a)] == IF k = 0 THEN 0 ELSE sum[k - 1] + a[k].bytes
  IN  sum[Len(a)] = a[1].wTotalLength
<1> DEFINE a == ConfigurationDescriptor
<1>1. Len(a) = 9 /\ a[1].wTotalLength = 62
  BY DEF ConfigurationDescriptor, Part, SizeOf, TotalConfigurationSize
<1>2. IsLengthSum([k \in 0 .. 9 |-> << 0, 9, 18, 23, 27, 32, 39, 48, 55, 62 >>[k + 1]], a)
  BY <1>1 DEF IsLengthSum, ConfigurationDescriptor, Part, SizeOf
<1>3. \A f : IsLengthSum(f, a) => f[Len(a)] = 62
  BY <1>1 DEF IsLengthSum, ConfigurationDescriptor, Part, SizeOf
<1>4. QED
  BY <1>1, <1>2, <1>3, LengthSum

\* The configuration header declares the two interfaces that follow it,
\* and each interface header the endpoints up to the next interface: one
\* notification endpoint for the CDC control interface, the OUT and IN
\* endpoints for the data interface.
LEMMA ConfigurationCounts ==
  LET a == ConfigurationDescriptor
      IsIf(k) == a[k].bDescriptorType = DTYPE_Interface
      ifs == {k \in 1 .. Len(a) : IsIf(k)}
      endpointsOf(k) == {j \in k + 1 .. Len(a) :
                           /\ a[j].bDescriptorType = DTYPE_Endpoint
                           /\ \A m \in k + 1 .. j - 1 : ~IsIf(m)}
  IN  /\ a[1].n = Cardinality(ifs)
      /\ \A k \in ifs : a[k].n = Cardinality(endpointsOf(k))
<1> DEFINE a == ConfigurationDescriptor
           IsIf(k) == a[k].bDescriptorType = DTYPE_Interface
           ifs == {k \in 1 .. Len(a) : IsIf(k)}
           endpointsOf(k) == {j \in k + 1 .. Len(a) :
                                /\ a[j].bDescriptorType = DTYPE_Endpoint
                                /\ \A m \in k + 1 .. j - 1 : ~IsIf(m)}
<1>1. /\ Len(a) = 9
      /\ a[1].n = 2 /\ a[2].n = 1 /\ a[7].n = 2
      /\ \A k \in 1 .. 9 : IsIf(k) <=> k \in {2, 7}
      /\ \A k \in 1 .. 9 : a[k].bDescriptorType = DTYPE_Endpoint <=> k \in {6, 8, 9}
  BY DEF ConfigurationDescriptor, Part, DTYPE_Interface, DTYPE_Endpoint,
         DTYPE_Configuration, DTYPE_CSInterface
<1>2. ifs = {2} \cup {7}
  BY <1>1
<1>3. endpointsOf(2) = {6}
  BY <1>1
<1>4. endpointsOf(7) = {8} \cup {9}
  BY <1>1
<1>5. Cardinality({2} \cup {7}) = 2 /\ Cardinality({6}) = 1
      /\ Cardinality({8} \cup {9}) = 2
  <2>1. /\ IsFiniteSet({2}) /\ Cardinality({2}) = 1
        /\ IsFiniteSet({8}) /\ Cardinality({8}) = 1 /\ Cardinality({6}) = 1
    BY FS_Singleton
  <2>2. Cardinality({2} \cup {7}) = 2
    BY <2>1, FS_AddElement
  <2>3. Cardinality({8} \cup {9}) = 2
    BY <2>1, FS_AddElement
  <2>4. QED
    BY <2>1, <2>2, <2>3
<1>6. QED
  BY <1>1, <1>2, <1>3, <1>4, <1>5

\* The configuration descriptor parses: the lengths add up to wTotalLength
\* and the counts match.
LEMMA ConfigurationParses == Parses(ConfigurationDescriptor, DTYPE_Configuration)
<1>1. ConfigurationDescriptor # << >>
      /\ ConfigurationDescriptor[1].bDescriptorType = DTYPE_Configuration
      /\ \A k \in 1 .. Len(ConfigurationDescriptor) :
            ConfigurationDescriptor[k].bLength = ConfigurationDescriptor[k].bytes
  BY DEF ConfigurationDescriptor, Part, SizeOf
<1>2. QED
  BY <1>1, ConfigurationLength, ConfigurationCounts DEF Parses

-----------------------------------------------------------------------------
\* The device descriptor names, besides the language table, exactly the
\* strings the callback serves: with LUFA's STRING_ID_Manufacturer 1,
\* STRING_ID_Product 2 and no internal serial, strings 1 and 2.
StringsServed ==
    {StringIdManufacturer, StringIdProduct, SerialStrIndex} \ {NO_DESCRIPTOR} = {1, 2}

\* The replies for the device and the string descriptors, and the stall.
LEMMA HeaderReplies ==
  /\ Parses(DeviceDescriptor, DTYPE_Device)
  /\ Parses(String0Desc, DTYPE_String)
  /\ Parses(String1Desc, DTYPE_String)
  /\ Parses(String2Desc, DTYPE_String)
<1>1. Parses(<<DeviceDescriptor[1]>>, DTYPE_Device)
  BY OneHeaderParses DEF DeviceDescriptor, SizeOf, DTYPE_Device, DTYPE_Configuration
<1>2. Parses(<<String0Desc[1]>>, DTYPE_String)
  BY OneHeaderParses DEF String0Desc, STR0LEN, DTYPE_String, DTYPE_Configuration
<1>3. Parses(<<String1Desc[1]>>, DTYPE_String)
  BY OneHeaderParses DEF String1Desc, STR1LEN, SizeofLiteral, DTYPE_String,
                         DTYPE_Configuration
<1>4. Parses(<<String2Desc[1]>>, DTYPE_String)
  BY OneHeaderParses DEF String2Desc, STR2LEN, SizeofLiteral, DTYPE_String,
                         DTYPE_Configuration
<1>5. /\ DeviceDescriptor = <<DeviceDescriptor[1]>>
      /\ String0Desc = <<String0Desc[1]>>
      /\ String1Desc = <<String1Desc[1]>>
      /\ String2Desc = <<String2Desc[1]>>
  BY DEF DeviceDescriptor, String0Desc, String1Desc, String2Desc
<1>6. QED
  BY <1>1, <1>2, <1>3, <1>4, <1>5

\* USB 2.0 9.4.3 and spec section 6, for CALLBACK_USB_GetDescriptor: for
\* every wValue of a GET_DESCRIPTOR, the callback returns a descriptor the
\* host parses as the type it asked for, with the size that sends it whole,
\* and NO_DESCRIPTOR (a stall) only when the device has no such descriptor.
THEOREM CallbackPerSpec ==
  ASSUME StringsServed
  PROVE  \A w \in Nat : ReplyPerSpec(w, CALLBACK_USB_GetDescriptor(w))
<1> TAKE w \in Nat
<1> DEFINE type == w \div 256
           num  == w % 256
           r    == CALLBACK_USB_GetDescriptor(w)
<1>1. NamedStrings = {0, 1, 2}
  BY DEF StringsServed, NamedStrings, DeviceDescriptor, NO_DESCRIPTOR
<1>2. HasDescriptor(w) <=> type \in {1, 2} \/ (type = 3 /\ num \in {0, 1, 2})
  BY <1>1 DEF HasDescriptor, DTYPE_Device, DTYPE_Configuration, DTYPE_String
<1>3. CASE type = 1
  <2>1. r = [addr |-> DeviceDescriptor, size |-> SizeOf.Device]
    BY <1>3 DEF CALLBACK_USB_GetDescriptor, DTYPE_Device, DTYPE_Configuration,
                DTYPE_String
  <2>2. QED
    BY <1>2, <1>3, <2>1, HeaderReplies
       DEF ReplyPerSpec, DeviceDescriptor, SizeOf, DTYPE_Device, DTYPE_Configuration
<1>4. CASE type = 2
  <2>1. r = [addr |-> ConfigurationDescriptor, size |-> TotalConfigurationSize]
    BY <1>4 DEF CALLBACK_USB_GetDescriptor, DTYPE_Device, DTYPE_Configuration,
                DTYPE_String
  <2>2. ConfigurationDescriptor[1].wTotalLength = TotalConfigurationSize
    BY DEF ConfigurationDescriptor
  <2>3. QED
    BY <1>2, <1>4, <2>1, <2>2, ConfigurationParses
       DEF ReplyPerSpec, DTYPE_Configuration
<1>5. CASE type = 3 /\ num = 0
  <2>1. r = [addr |-> String0Desc, size |-> STR0LEN]
    BY <1>5 DEF CALLBACK_USB_GetDescriptor, DTYPE_Device, DTYPE_Configuration,
                DTYPE_String
  <2>2. QED
    BY <1>2, <1>5, <2>1, HeaderReplies
       DEF ReplyPerSpec, String0Desc, DTYPE_String, DTYPE_Configuration
<1>6. CASE type = 3 /\ num = 1
  <2>1. r = [addr |-> String1Desc, size |-> STR1LEN]
    BY <1>6 DEF CALLBACK_USB_GetDescriptor, DTYPE_Device, DTYPE_Configuration,
                DTYPE_String
  <2>2. QED
    BY <1>2, <1>6, <2>1, HeaderReplies
       DEF ReplyPerSpec, String1Desc, DTYPE_String, DTYPE_Configuration
<1>7. CASE type = 3 /\ num = 2
  <2>1. r = [addr |-> String2Desc, size |-> STR2LEN]
    BY <1>7 DEF CALLBACK_USB_GetDescriptor, DTYPE_Device, DTYPE_Configuration,
                DTYPE_String
  <2>2. QED
    BY <1>2, <1>7, <2>1, HeaderReplies
       DEF ReplyPerSpec, String2Desc, DTYPE_String, DTYPE_Configuration
<1>8. CASE ~(type \in {1, 2} \/ (type = 3 /\ num \in {0, 1, 2}))
  <2>1. r.size = NO_DESCRIPTOR
    BY <1>8 DEF CALLBACK_USB_GetDescriptor, DTYPE_Device, DTYPE_Configuration,
                DTYPE_String
  <2>2. QED
    BY <1>2, <1>8, <2>1 DEF ReplyPerSpec
<1>9. QED
  BY <1>3, <1>4, <1>5, <1>6, <1>7, <1>8
====
