----------------------------- MODULE MCPacketHops -----------------------------
(* PacketHops with a few values of each length and the packets of two apps. *)
EXTENDS PacketHops

MCBytes == [
    node |-> 18, id17 |-> 17, smoke |-> 6, booted |-> 6, alive |-> 11,
    key1 |-> 8, key2 |-> 8, home |-> 20, long |-> 250, lat1 |-> 4, lat2 |-> 4, lon1 |-> 4,
    phone |-> 5, curve |-> 32, peers |-> 16, caps |-> 1, text |-> 40, id13 |-> 13,
    emoji |-> 1, wide |-> 8]

Item(type, value) == [type |-> type, value |-> value]
Packet(kind, ttl, to, items) ==
    LET w == [kind |-> kind, ttl |-> ttl, to |-> to, claimed |-> 0, items |-> items]
    IN [w EXCEPT !.claimed = Remainder(w) - 1]

Key(k) == Item("preferences_key", k)
PhoneItems == {
    <<Key("key1"), Item("preferences_latitude", "lat1")>>,
    <<Key("key1"), Item("preferences_ssid", "home"), Item("preferences_latitude", "lat2"),
      Item("preferences_longitude", "lon1")>>,
    <<Key("key1"), Item("preferences_ssid", "long"), Item("preferences_password", "home")>>,
    <<Key("key2"), Item("preferences_altitude", "lat1")>>,
    <<Item("preferences_ssid", "home")>>}
MCPhonePackets ==
    {Packet("preferences", 1, to, items) : to \in {"me", "other"}, items \in PhoneItems}

AnnounceItems == {
    <<Item("announce_nickname", "phone"), Item("announce_noise_public_key", "curve"),
      Item("announce_signing_public_key", "curve"), Item("announce_direct_neighbors", "peers")>>,
    <<Item("announce_capabilities", "caps"), Item("announce_noise_public_key", "curve"),
      Item("announce_nickname", "phone")>>,
    <<Item("announce_nickname", "phone"), Item("announce_location_latitude", "lat1"),
      Item("announce_location_longitude", "wide")>>,
    <<Item("announce_nickname", "phone"), Item("announce_location_longitude", "lon1")>>}
MessageItems == {
    <<Item("message_content", "text"), Item("message_sender_nickname", "phone"),
      Item("message_id", "id13")>>,
    <<Item("message_channel", "smoke"), Item("message_id", "id13"),
      Item("message_reply_to_id", "lat1"), Item("message_flags", "emoji")>>,
    <<Item("message_from_the_future", "caps"), Item("message_channel", "smoke"),
      Item("message_channel_content", "text"), Item("message_id", "id13")>>,
    <<Item("message_channel", "smoke")>>}
MCAppPackets ==
    {Packet("announce", OwnTtl, "nobody", items) : items \in AnnounceItems} \cup
    {Packet("message", OwnTtl, "nobody", items) : items \in MessageItems}
===============================================================================
