--------------------------- MODULE MCNlpPipeline ---------------------------
(***************************************************************************)
(* A small instance of LogAnalysis: logs of all five formats, two threads. *)
(* The table of the lines is that of real ones: their matches are those    *)
(* the regular expressions find, those of IPV4 that are no address left    *)
(* out.  Extraction is made to raise for ssh_invalid, classification for   *)
(* oom.                                                                    *)
(***************************************************************************)
EXTENDS LogAnalysis, TLC

M(p, t, k) == [pattern |-> p, text |-> t, kind |-> k]
G(p, t, k, holds) == [pattern |-> p, text |-> t, kind |-> k, holds |-> holds]
T(holds) == G("text", "...", "plain", holds)

Ip      == M("ipv4", "185.24.18.15", "public")
Private == M("ipv4", "10.0.0.5", "private")
EvilUrl == <<M("url", "http://evil.com/x", "plain"), M("win_path", "p://evil.com/x", "plain"),
             M("unix_path", "//evil.com/x", "plain"), M("filename", "vil.com", "plain")>>
EvilCom == <<M("domain", "evil.com", "plain"), M("filename", "evil.com", "plain")>>
ShopCom == <<M("domain", "shop.evil.com", "plain"), M("filename", "shop.evil.com", "plain")>> \o EvilCom
EvilExe == <<M("domain", "evil.exe", "no_suffix"), M("filename", "evil.exe", "plain")>>
EvilPath == <<M("win_path", "C:\\Temp\\evil.exe", "plain"), M("filename", "vil.exe", "plain")>>
LsassPath == <<M("domain", "lsass.exe", "no_suffix"), M("filename", "sass.exe", "plain"),
               M("win_path", "C:\\Windows\\lsass.exe", "plain")>>
Setup == <<M("unix_path", "/wp-admin/setup.php", "plain"), M("filename", "etup.php", "plain")>>
Passwd == <<M("unix_path", "/../etc/passwd", "plain")>>
Shell == <<M("unix_path", "/var/www/html/shell.php", "plain"), M("filename", "hell.php", "plain")>>
Md5   == <<M("md5", "A1B2", "plain"), M("sysmon_md5", "A1B2", "plain")>>
Proxy == <<Private, M("url", "http://10.0.0.5:80/a", "plain"), M("win_path", "p://10.0.0.5:80/a", "plain"),
           M("unix_path", "//10.0.0.5:80/a", "plain")>>

IpGroup    == G("ipv4", "185.24.18.15", "public", <<Ip>>)
LocalGroup == G("ipv4", "10.0.0.5", "private", <<Private>>)
User(t)    == G("username", t, "plain", <<>>)
Host(t)    == G("domain", t, "plain", <<>>)
Port(t)    == G("port", t, "plain", <<>>)
Program(t) == G("filename", t, "other", <<>>)
EvilImage  == G("filename", "C:\\Temp\\evil.exe", "plain", EvilPath)

NoGroups == [n \in {} |-> Ip]
Line0 == [shape |-> "other", says |-> {}, number |-> 0, got |-> NoGroups, raw |-> <<>>,
          only |-> [f \in {"apache_access", "nginx_access"} |-> {}], head |-> <<>>, marks |-> {}]
Syslog(p, says, got, raw, marks) ==
  [Line0 EXCEPT !.shape = "syslog", !.says = says, !.raw = raw, !.marks = {"rfc3164"} \cup marks,
                !.got = got @@ [hostname |-> Host("server"), process |-> Program(p)]]
Access(says, status, got, raw, marks) ==
  [Line0 EXCEPT !.shape = "access", !.says = says, !.number = status, !.raw = <<Ip>> \o raw,
                !.got = got @@ [ip |-> IpGroup],
                !.marks = {"combined", "method", "protocol_status"} \cup marks]
Plain == {"combined_no_user", "mozilla"}
Sysmon(id, says, got, raw, head, marks) ==
  [Line0 EXCEPT !.shape = "xml", !.says = {"event_id", "event_id_tag"} \cup says, !.number = id, !.raw = raw,
                !.head = head, !.got = got @@ [hostname |-> Host("HOST1")],
                !.marks = {"event_id", "event_id_sysmon", "provider", "provider_sysmon"} \cup marks]

Ssh == {"service", "ssh"}
From(u, ip, port) == [username |-> User(u), ip |-> ip, port |-> Port(port)]
DumpGot == [image |-> EvilImage, commandline |-> T(EvilExe), user |-> User("root"), hashes |-> T(Md5)]

MCContent == LET content == [
  blank   |-> [Line0 EXCEPT !.shape = "blank"],
  chatter |-> Line0,
  ssh_failed   |-> Syslog("sshd", {"sshd", "ssh_failed"}, From("root", IpGroup, "51022"), <<Ip>>, Ssh),
  ssh_accepted |-> Syslog("sshd", {"sshd", "ssh_accepted"}, From("ops", LocalGroup, "22"), <<Private>>, Ssh),
  ssh_invalid  |-> Syslog("sshd", {"sshd", "ssh_invalid"}, From("ops", IpGroup, "51022"), <<Ip>>, Ssh),
  sudo |-> Syslog("sudo", {"sudo", "sudo_command"},
    [username |-> User("ops"), tty |-> T(<<>>), target_user |-> T(<<>>),
     working_dir |-> T(<<M("unix_path", "/home/ops", "plain")>>),
     command |-> T(<<M("unix_path", "/tmp/load/run.sh", "plain"), M("filename", "un.sh", "plain")>> \o EvilUrl)],
    <<M("unix_path", "/home/ops", "plain"), M("unix_path", "/tmp/load/run.sh", "plain"),
      M("filename", "un.sh", "plain")>> \o EvilUrl, {"service"}),
  pam  |-> Syslog("login", {"pam_failure"}, NoGroups, <<Ip>>, {"pam", "ssh"}),
  oom  |-> Syslog("kernel", {"oom"}, [killed |-> G("filename", "miner.sh", "plain", <<>>)],
    <<M("domain", "miner.sh", "no_suffix"), M("filename", "miner.sh", "plain")>>, {"service"}),
  cron |-> Syslog("cron", {}, NoGroups, <<>>, {"service"}),
  sqli |-> Access({"sql_injection", "scanner_ua"}, 404,
    [path |-> T(<<>>), decoded_path |-> T(<<>>), ua |-> T(<<>>)], <<>>, {"combined_no_user"}),
  vbscript |-> [Access({}, 200, [path |-> T(<<>>)], <<>>, Plain)
                  EXCEPT !.only["apache_access"] = {"xss"}],
  scan   |-> Access({"path_scan"}, 403, [path |-> T(Setup)], Setup, Plain),
  big    |-> Access({"large"}, 500, [path |-> T(<<>>), user |-> User("ops"), referer |-> T(EvilUrl)], EvilUrl, {}),
  denied |-> Access({}, 401, [path |-> T(<<>>)], <<>>, Plain),
  page   |-> Access({}, 200, [path |-> T(<<>>)], <<>>, Plain),
  garbage |-> [Access({"traversal"}, 400, [path |-> T(Passwd)], Passwd, {})
                 EXCEPT !.shape = "raw_request", !.marks = {"combined", "combined_no_user"}],
  apache_error |-> [Line0 EXCEPT !.shape = "apache_error", !.raw = <<Ip>> \o Shell,
    !.got = [ip |-> IpGroup, message |-> T(Shell)], !.marks = {"level", "apache_code"}],
  upstream |-> [Line0 EXCEPT !.shape = "nginx_error", !.says = {"upstream", "error"},
    !.got = [ip |-> IpGroup, path |-> T(<<>>), host |-> Host("evil.com"), server |-> Host("shop.evil.com"),
             message |-> T(<<Ip>> \o Proxy \o ShopCom), upstream |-> T(Proxy)],
    !.raw = <<Ip>> \o Proxy \o ShopCom,
    !.marks = {"connect_failed", "level", "method", "nginx_error", "upstream"}],
  nginx_warn |-> [Line0 EXCEPT !.shape = "nginx_error", !.says = {"warn"},
    !.got = [ip |-> IpGroup, server |-> Host("evil.com"), message |-> T(<<Ip>> \o EvilCom)],
    !.raw = <<Ip>> \o EvilCom, !.marks = {"level", "nginx_error"}],
  win_xml |-> [Line0 EXCEPT !.shape = "xml", !.says = {"event_id", "event_id_tag", "single_quoted"},
    !.number = 4625,
    !.got = [hostname |-> Host("HOST1"), targetusername |-> User("root"), ipaddress |-> IpGroup,
             ipport |-> Port("51022")],
    !.raw = <<Ip>>, !.head = <<Ip>>, !.marks = {"channel", "event_id", "event_xmlns", "provider"}],
  win_text |-> [Line0 EXCEPT !.shape = "text", !.says = {"event_id"}, !.number = 4720, !.raw = <<Ip>>,
    !.got = [account_name |-> User("SYSTEM"), source_ip |-> IpGroup],
    !.marks = {"account_name", "event_id_text", "event_type", "keywords", "log_name"}],
  win_field |-> [Line0 EXCEPT !.shape = "text", !.got = [account_name |-> User("root")],
    !.marks = {"account_name", "logon_type", "security_id", "source_name"}],
  win_note |-> [Line0 EXCEPT !.shape = "text"],
  dump   |-> Sysmon(1, {"single_quoted", "mimikatz", "suspicious_path"}, DumpGot,
    EvilPath \o EvilExe \o Md5, EvilPath \o EvilExe, {"hash"}),
  quoted |-> Sysmon(1, {"mimikatz", "suspicious_path"}, DumpGot,
    EvilPath \o EvilExe \o Md5, EvilPath \o EvilExe, {"hash", "data_process"}),
  lsass  |-> Sysmon(10, {"single_quoted", "lsass"},
    [sourceimage |-> EvilImage, targetimage |-> T(LsassPath)],
    EvilPath \o LsassPath, EvilPath \o LsassPath, {}),
  beacon |-> Sysmon(3, {"single_quoted"},
    [image |-> EvilImage, sourceip |-> LocalGroup, destinationip |-> IpGroup,
     destinationport |-> Port("4444"), destinationhostname |-> Host("evil.com")],
    <<Private, Ip>> \o EvilPath \o EvilCom, <<Private, Ip>> \o EvilPath \o EvilCom, {}),
  dns |-> Sysmon(22, {"single_quoted"},
    [image |-> EvilImage, queryname |-> T(EvilCom), queryresults |-> T(<<Ip>>)],
    <<Ip>> \o EvilPath \o EvilCom, <<Ip>> \o EvilPath \o EvilCom, {})]
  IN content

MCLine == DOMAIN MCContent
MCText == {
  <<>>, <<"cron">>, <<"win_xml">>,
  <<"ssh_failed", "blank", "sudo", "pam">>, <<"pam", "ssh_failed", "ssh_accepted", "oom">>,
  <<"ssh_invalid", "oom", "ssh_failed">>,
  <<"sqli", "scan", "denied", "page">>, <<"vbscript", "apache_error", "big">>,
  <<"garbage", "upstream", "nginx_warn">>,
  <<"win_text", "win_field", "win_note">>, <<"dump", "lsass", "beacon">>,
  <<"chatter", "dns", "quoted", "win_xml">>}

MCBroken ==
  LET broken == [e \in Events |-> CASE e.line = "ssh_invalid" -> "extract"
                                    [] e.line = "oom" -> "classify" [] OTHER -> "none"]
  IN  broken

MCFormatOrder == <<"sysmon", "windows_event", "linux_syslog", "apache_access", "nginx_access">>
MCModuleOrder == <<"apache_access", "linux_syslog", "nginx_access", "sysmon", "windows_event">>

MCBaseName(t) == IF t = "C:\\Temp\\evil.exe" THEN "evil.exe" ELSE t
MCFolded(t) == CASE t = "HOST1" -> "host1" [] t = "A1B2" -> "a1b2" [] OTHER -> t
Symmetry == Permutations(Run)
=============================================================================
