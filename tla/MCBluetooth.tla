------------------------------ MODULE MCBluetooth ------------------------------
(***************************************************************************)
(* An instance of BluezBluetoothServer: a machine without a network and    *)
(* one with a wireless interface behind another; two adapters or none.     *)
(* The files the server reads, and those the program keeps, are evaluated  *)
(* as functions of their content.                                          *)
(***************************************************************************)
EXTENDS BluezBluetoothServer, Configuration

eth == [name |-> "eth", up |-> TRUE, chosen |-> FALSE]
wlan == [name |-> "wlan", up |-> TRUE, chosen |-> TRUE]
down == [name |-> "down", up |-> FALSE, chosen |-> TRUE]

MCObjects ==
    {<<>>, <<[path |-> "hci0", address |-> "one"], [path |-> "hci1", address |-> "two"]>>}

MCInterfaces == {<<down>>, <<down, eth, wlan>>}

-----------------------------------------------------------------------------
ValuesOf(m) ==
    IF m \in Margins THEN -IntLimit..IntLimit - 1
    ELSE IF m \in {"bluetoothAdapterAddress", "bluetoothWifiInterface"} THEN {"", "one"}
    ELSE IF m \in {"videoFPS", "videoResolution", "screenDPI", "bluetoothAdapterType"} THEN 0..3
    ELSE BOOLEAN

\* The settings read back as they were saved; only a
\* negative margin becomes 0 (Configuration.cpp:82-133, 174-206).
ASSUME SettingsReadBack ==
    \A m \in DOMAIN Defaults : \A value \in ValuesOf(m) :
        LET c == Set(Reset, m, value)
            back == Load(Put(c), Reset)
        IN  \A k \in DOMAIN Defaults :
                back[k] = IF k \in Margins /\ c[k] < 0 THEN 0 ELSE c[k]

\* The buttons that were set are the ones read back, each once
\* (Configuration.cpp:523-571).
ASSUME ButtonsReadBack ==
    \A i, j \in DOMAIN Buttons :
        ReadButtonCodes(WriteButtonCodes(<<Buttons[i], Buttons[j]>>), <<>>)
        \in {<<Buttons[i]>>, <<Buttons[i], Buttons[j]>>, <<Buttons[j], Buttons[i]>>}

\* The addresses read back in their order, for lists of 2 and three insertions
\* (RecentAddressesList.cpp:47-113).
ASSUME AddressesReadBack ==
    \A a, b, c \in {"one", "two", "three"} :
        LET list == InsertAddress(InsertAddress(InsertAddress(<<>>, a, 2), b, 2), c, 2)
        IN  /\ LoadAddresses(SaveAddresses(list, 2), <<>>, 2) = list
            /\ Len(list) <= 2 /\ \A i, j \in DOMAIN list : i # j => list[i] # list[j]

ssid == [comment |-> FALSE, names |-> {"ssid"}, value |-> "ours"]
bssid == [comment |-> FALSE, names |-> {"bssid", "ssid"}, value |-> "other"]
commented == [comment |-> TRUE, names |-> {"ssid"}, value |-> "old"]

\* The phone is given a name in any case, and the one of the first file that
\* sets it, unless a name that ends alike comes before
\* (Configuration.cpp:470-502, BluezBluetoothServer.cpp:472-488).
ASSUME CredentialFound ==
    \A first, second \in UNION {[1..n -> {ssid, bssid, commented}] : n \in 0..2} :
        LET found == Credential(first, second, "ssid", "default")
            Misleads(lines) == \E i \in DOMAIN lines : lines[i] = bssid
        IN  CASE Misleads(first) -> found \in {"ours", "other"}
              [] ~Misleads(first) /\ \E i \in DOMAIN first : first[i] = ssid -> found = "ours"
              [] OTHER -> found = Credential(second, <<>>, "ssid", "default")
=============================================================================
