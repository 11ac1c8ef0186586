------------------------------ MODULE Configuration ------------------------------
(***************************************************************************)
(* Configuration/Configuration.cpp and RecentAddressesList.cpp: what is    *)
(* kept in files from one start of the program to the next.                *)
(*                                                                         *)
(* An ini file is a function from its keys to what was put there.  The     *)
(* text of a flag, of a name without blanks around it and of a number that *)
(* is not negative reads back as it was; a margin is put as uint32_t and   *)
(* got as int32_t.  The members of Configuration that no function but      *)
(* reset assigns are left out.                                             *)
(***************************************************************************)
EXTENDS Integers, Sequences

CONSTANT IntLimit   \* 2^31, the first number that is not an int32_t

ASSUME IntAssumption == IntLimit \in Nat \ {0}

\* What load takes for a key that the file does not have.
Defaults == [
    oldGUI |-> FALSE, hideMenuToggle |-> FALSE, showCursor |-> FALSE,
    showNetworkinfo |-> FALSE,
    videoFPS |-> 2, videoResolution |-> 1, screenDPI |-> 140,
    marginWidth |-> 0, marginHeight |-> 0,
    enableTouchscreen |-> TRUE, enablePlayerControl |-> FALSE,
    bluetoothAdapterType |-> 0, wirelessProjectionEnabled |-> TRUE,
    bluetoothAdapterAddress |-> "", bluetoothWifiInterface |-> "",
    mediaEnabled |-> TRUE, guidanceEnabled |-> TRUE,
    systemEnabled |-> TRUE, telephonyEnabled |-> TRUE]

Margins == {"marginWidth", "marginHeight"}

\* Members that save writes and load does not read.
WrittenOnly == {"hideBrightnessControl", "audioOutputBackendType"}

Members == DOMAIN Defaults \cup WrittenOnly

\* The buttons, in the order of readButtonCodes.
Buttons == <<"Play", "Pause", "TogglePlay", "NextTrack", "PreviousTrack", "Home",
             "Phone", "CallEnd", "VoiceCommand", "Left", "Right", "Up", "Down",
             "ScrollWheel", "Back", "Enter", "Nav">>

-----------------------------------------------------------------------------
\* A conversion that fails takes the default.
PutUnsigned(n) == n % (2 * IntLimit)
GetSigned(n, default) == IF n < IntLimit THEN n ELSE default

Get(ini, key) ==
    IF key \notin DOMAIN ini THEN Defaults[key]
    ELSE IF key \in Margins THEN GetSigned(ini[key], Defaults[key])
    ELSE ini[key]

\* save: every member is put.
Put(c) == [m \in Members |-> IF m \in Margins THEN PutUnsigned(c[m]) ELSE c[m]]

\* load of a file that can be read: the other members stay.
Load(ini, c) == [m \in Members |-> IF m \in DOMAIN Defaults THEN Get(ini, m) ELSE c[m]]

\* reset, which load calls when the file cannot be read.  It shows the cursor,
\* as the default of load does not.
Reset == [m \in Members |->
             IF m = "showCursor" THEN TRUE
             ELSE IF m = "hideBrightnessControl" THEN FALSE
             ELSE IF m = "audioOutputBackendType" THEN 0
             ELSE Defaults[m]]

\* A setter.
Set(c, member, value) == [c EXCEPT ![member] = value]

WriteButtonCodes(codes) ==
    [b \in {Buttons[i] : i \in DOMAIN Buttons} |-> \E i \in DOMAIN codes : codes[i] = b]

\* insertButtonCode for each key: nothing clears the codes before.
ReadButtonCodes(ini, codes) ==
    codes \o SelectSeq(Buttons, LAMBDA b : b \in DOMAIN ini /\ ini[b])

-----------------------------------------------------------------------------
(***************************************************************************)
(* getParamFromFile.  A line is a comment or not, the names that stand     *)
(* before a "=" in it, and what follows its first "=", unquoted.  The name *)
(* of a line ends with the one that is looked for: bssid will do for ssid. *)
(***************************************************************************)
Match(lines, name) == {i \in DOMAIN lines : ~lines[i].comment /\ name \in lines[i].names}

GetParamFromFile(lines, name) ==
    IF Match(lines, name) = {} THEN ""
    ELSE lines[CHOOSE i \in Match(lines, name) :
                   \A j \in Match(lines, name) : i <= j].value

\* getCSValue: the second file is looked at when the first has not got it.
GetCSValue(lines, fallback, name) ==
    IF Match(lines, name) # {} THEN GetParamFromFile(lines, name)
    ELSE GetParamFromFile(fallback, name)

\* A credential of handleWifiInfoRequest of BluezBluetoothServer.cpp.
Credential(hostapd, credentials, name, default) ==
    LET first == GetParamFromFile(hostapd, name)
        second == GetParamFromFile(credentials, name)
    IN  IF first # "" THEN first ELSE IF second # "" THEN second ELSE default

-----------------------------------------------------------------------------
\* RecentAddressesList: a known address stays where it is.
InsertAddress(list, address, maxListSize) ==
    IF \E i \in DOMAIN list : list[i] = address THEN list
    ELSE <<address>> \o (IF Len(list) >= maxListSize
                         THEN SubSeq(list, 1, Len(list) - 1) ELSE list)

Smaller(a, b) == IF a <= b THEN a ELSE b

SaveAddresses(list, maxListSize) ==
    SubSeq(list, 1, Smaller(maxListSize, Len(list)))

LoadAddresses(entries, list, maxListSize) ==
    list \o SelectSeq(SubSeq(entries, 1, Smaller(maxListSize, Len(entries))),
                      LAMBDA a : a # "")
=============================================================================
